---- MODULE Spec2Model ----
(***************************************************************************)
(* DivergenceBotX backend: tick-to-candle aggregation (DataConnector),     *)
(* live transport with reconnect/backoff, the simulator, the broadcast hub,*)
(* the signal engine and the pipeline driver, as state machines.           *)
(*                                                                         *)
(* Floats are modelled as integers in thousandths (Scale = 1000), so the   *)
(* price 100.0 is 100000.  An Optional value is a sequence: None is <<>>   *)
(* and a present value v is <<v>>.                                         *)
(***************************************************************************)
EXTENDS Integers, Sequences, FiniteSets, TLC

\* ------------------------------------------------------------------ bounds
\* number of DataConnector objects ever constructed
MaxDc == 3
\* cap on the length of a connector's (unbounded) asyncio.Queue
MaxQueue == 3
\* number of /ws/stream connections ever accepted
MaxSubs == 2
\* number of hub.broadcast calls
MaxBroadcasts == 2
\* number of messages a connector's task receives from the feed
MaxMsgs == 2
\* number of connections a connector's task is granted
MaxConns == 2
\* number of candles one run of the simulator produces
MaxSimSteps == 2
\* the count of consecutive failures saturates here
MaxFails == 7

\* ------------------------------------------------------------- constants
\* thousandths per unit: the fixed-point scale of every float of the model
Scale == 1000

None == <<>>
Some(v) == <<v>>
Val(o) == o[1]

Max2(a, b) == IF a >= b THEN a ELSE b
Min2(a, b) == IF a <= b THEN a ELSE b

DcIds == 1 .. MaxDc

\* a bucket-aligned instant and the instants the wall clock is observed at
T0 == 2 * 60000
Instants == {T0, T0 + 500, T0 + 59999, T0 + 60000, T0 + 60500, T0 + 120000}

\* tick prices 100.0, 101.0, 102.0 and tick volumes 0.0, 1.0
Prices == {100 * Scale, 101 * Scale, 102 * Scale}
Volumes == {0, 1 * Scale}

VARIABLES
    now,          \* the last value read from time.time(), in ms
    timeframe,    \* DataConnector.timeframe, a sequence of characters
    queue,        \* DataConnector.queue
    aggOpen,      \* DataConnector._agg_open
    aggHigh,      \* DataConnector._agg_high
    aggLow,       \* DataConnector._agg_low
    aggVolume,    \* DataConnector._agg_volume
    bucketStart,  \* DataConnector._bucket_start_ms
    fed,          \* history: the (ts, price, volume) ticks given to _handle_tick
    subscribers,  \* BroadcastHub._subscribers: the queues, by the id of their handler
    hubLock,      \* BroadcastHub._lock: "free" or "broadcast"
    subQ,         \* the content of each subscriber queue
    got,          \* history: every message ever put on each subscriber queue
    hs,           \* where each /ws/stream handler is
    bcPc,         \* where the running hub.broadcast call is: "idle", "lock", "iter"
    bcIdx,        \* the list iterator's index in hub.broadcast
    bcMsg,        \* the message of the running hub.broadcast call
    bcSeq,        \* history: the number of broadcast calls so far
    snap,         \* history: the subscribers when each broadcast took the lock
    bcDone,       \* history: the broadcasts that returned
    simulate,     \* DataConnector.simulate
    taskSet,      \* DataConnector._task is not None
    stopEv,       \* DataConnector._stop
    stopWait,     \* a call of DataConnector.stop is waiting for the task
    tpc,          \* where the connector's task is
    backoff,      \* the local backoff of _run_ws, in seconds
    simTs,        \* the local ts of _run_simulator
    simI,         \* the local i of _run_simulator
    simLast,      \* the local last_close of _run_simulator
    hist,         \* history of each connector's task and queue
    used,         \* history: the connections, messages and simulator candles so far
    apiKey,       \* get_api_key("twelve_data_api_key") returns a key
    dcN,          \* the number of connectors _restart_connector constructed
    dc,           \* main._dc: the current connector, 0 for None
    cfg,          \* main._stream_cfg.timeframe
    engineTf,     \* main.engine.timeframe
    dcLock,       \* main._dc_lock: 0 when free, else the restart holding it
    rpc,          \* where each POST /api/stream/config request is
    rcfg,         \* the timeframe each request carries
    ppc,          \* where background_pipeline is
    pdc,          \* the connector whose queue the pipeline's loop reads
    mainPrices,   \* main._prices
    priceKinds,   \* history: the kind of candle each element of _prices came from
    pending,      \* the candle or packet background_pipeline holds
    appHist,      \* history of the signal engine's calls
    fnCall,       \* a library function called directly: its name and arguments
    fnRet,        \* what that call returned or raised
    tasks,        \* every task one DataConnector created, "running" or "done"
    selfTask,     \* that DataConnector's _task: an index of tasks, or None
    selfStop,     \* that DataConnector's _stop flag
    awaiting      \* per caller, the task its stop() call awaits, or 0

aggVars == <<timeframe, queue, aggOpen, aggHigh, aggLow, aggVolume, bucketStart, fed>>
hubVars == <<subscribers, hubLock, subQ, got, hs>>
bcVars == <<bcPc, bcIdx, bcMsg, bcSeq, snap, bcDone>>
taskVars == <<simulate, taskSet, stopEv, stopWait, tpc, backoff, simTs, simI, simLast>>
appVars == <<apiKey, dcN, dc, cfg, engineTf, dcLock, rpc, rcfg, ppc, pdc, mainPrices, priceKinds, pending, appHist>>
fnVars == <<fnCall, fnRet>>
lifeVars == <<tasks, selfTask, selfStop, awaiting>>
vars == <<now, aggVars, taskVars, hist, used, hubVars, bcVars, appVars, fnVars, lifeVars>>

\* ------------------------------------------------------------ numbers
\* F applied to the value of x: x is evaluated once, before F's body
Strict(F(_), x) == CHOOSE r \in {F(v) : v \in {x}} : TRUE

\* A float that arithmetic produced is a rational <<n, d>> with d > 0, in
\* lowest terms; arithmetic is exact (float64 rounding is not modelled).
Abs(x) == IF x < 0 THEN -x ELSE x

RECURSIVE Gcd(_, _)
Gcd(a, b) == Strict(LAMBDA v : IF v[2] = 0 THEN v[1] ELSE Gcd(v[2], v[1] % v[2]), <<a, b>>)

QNorm(n, d) ==
    Strict(LAMBDA v : IF v[1] = 0 THEN <<0, 1>>
                      ELSE IF v[3] < 0 THEN <<-(v[1] \div v[2]), -(v[3] \div v[2])>>
                      ELSE <<v[1] \div v[2], v[3] \div v[2]>>,
           <<n, Gcd(Abs(n), Abs(d)), d>>)
Q(n) == <<n, 1>>
\* the arithmetic cancels common factors before it multiplies, and the
\* comparison runs Euclid's algorithm on the two fractions, so that no
\* intermediate product leaves the range of the model checker's integers
QAdd(a, b) ==
    Strict(LAMBDA v : Strict(LAMBDA g : QNorm(v[1][1] * (v[2][2] \div g) + v[2][1] * (v[1][2] \div g),
                                              (v[1][2] \div g) * v[2][2]),
                             Gcd(v[1][2], v[2][2])),
           <<a, b>>)
QNeg(a) == Strict(LAMBDA v : <<-v[1], v[2]>>, a)
QSub(a, b) == QAdd(a, QNeg(b))
QMul(a, b) ==
    Strict(LAMBDA v :
               Strict(LAMBDA g : QNorm((v[1][1] \div g[1]) * (v[2][1] \div g[2]),
                                       (v[1][2] \div g[2]) * (v[2][2] \div g[1])),
                      <<IF v[1][1] = 0 THEN 1 ELSE Gcd(Abs(v[1][1]), v[2][2]),
                        IF v[2][1] = 0 THEN 1 ELSE Gcd(Abs(v[2][1]), v[1][2])>>),
           <<a, b>>)
QInv(a) == Strict(LAMBDA v : IF v[1] < 0 THEN <<-v[2], -v[1]>> ELSE <<v[2], v[1]>>, a)
QDiv(a, b) == QMul(a, QInv(b))
QAbs(a) == Strict(LAMBDA v : <<Abs(v[1]), v[2]>>, a)
\* -1, 0 or 1 as n1/d1 is below, equal to or above n2/d2, all four positive
RECURSIVE QCmpPos(_, _, _, _)
QCmpPos(n1, d1, n2, d2) ==
    Strict(LAMBDA v : IF v[1] < v[2] THEN -1
                      ELSE IF v[1] > v[2] THEN 1
                      ELSE IF v[3] = 0 /\ v[4] = 0 THEN 0
                      ELSE IF v[3] = 0 THEN -1
                      ELSE IF v[4] = 0 THEN 1
                      ELSE QCmpPos(v[6], v[4], v[5], v[3]),
           <<n1 \div d1, n2 \div d2, n1 % d1, n2 % d2, d1, d2>>)
QCmp(a, b) ==
    Strict(LAMBDA v : IF v[1][1] < 0 /\ v[2][1] >= 0 THEN -1
                      ELSE IF v[1][1] >= 0 /\ v[2][1] < 0 THEN 1
                      ELSE IF v[1][1] < 0 THEN QCmpPos(-v[2][1], v[2][2], -v[1][1], v[1][2])
                      ELSE QCmpPos(v[1][1], v[1][2], v[2][1], v[2][2]),
           <<a, b>>)
QLt(a, b) == QCmp(a, b) < 0
QLe(a, b) == QCmp(a, b) <= 0
QIsZero(a) == a[1] = 0

\* ---------------------------------------------------------- indicators
\* Code indexes lists from 0; a TLA+ sequence holds code index i at i + 1.
At(seq, i) == seq[i + 1]

\* gains[i] and losses[i] of rsi, for 1 <= i < n
Gain(series, i) == Max2(At(series, i) - At(series, i - 1), 0)
Loss(series, i) == Max2(At(series, i - 1) - At(series, i), 0)

RECURSIVE SumGain(_, _, _)
SumGain(series, lo, hi) == IF lo > hi THEN 0 ELSE Gain(series, lo) + SumGain(series, lo + 1, hi)
RECURSIVE SumLoss(_, _, _)
SumLoss(series, lo, hi) == IF lo > hi THEN 0 ELSE Loss(series, lo) + SumLoss(series, lo + 1, hi)

\* the pair (avg_gain, avg_loss) of rsi before its loop: the plain means
\* of gains[1..period] and losses[1..period]
RsiSeed(series, period) ==
    <<QNorm(SumGain(series, 1, period), period), QNorm(SumLoss(series, 1, period), period)>>

\* one iteration of the loop of rsi at an index i > period: Wilder smoothing
RsiSmooth(series, period, i, prev) ==
    <<QDiv(QAdd(QMul(prev[1], Q(period - 1)), Q(Gain(series, i))), Q(period)),
      QDiv(QAdd(QMul(prev[2], Q(period - 1)), Q(Loss(series, i))), Q(period))>>

\* out[i] of rsi at an index i >= period
RsiValue(avg) ==
    IF QIsZero(avg[2]) THEN Q(100)
    ELSE IF QIsZero(avg[1]) THEN Q(0)
    ELSE QSub(Q(100), QDiv(Q(100), QAdd(Q(1), QDiv(avg[1], avg[2]))))

\* out[i..n-1] of rsi, avg being the averages after the iteration at index i
RECURSIVE RsiFrom(_, _, _, _)
RsiFrom(series, period, i, avg) ==
    IF i >= Len(series) THEN <<>>
    ELSE Strict(LAMBDA a : <<Some(RsiValue(a))>> \o
                           RsiFrom(series, period, i + 1,
                                   IF i + 1 >= Len(series) THEN a
                                   ELSE RsiSmooth(series, period, i + 1, a)),
                avg)

\* indicators.rsi for period > 0 (period <= 0 raises ValueError)
rsi(series, period) ==
    Strict(LAMBDA s : IF Len(s) <= period THEN [k \in 1 .. Len(s) |-> None]
                      ELSE [k \in 1 .. period |-> None] \o RsiFrom(s, period, period, RsiSeed(s, period)),
           series)

\* what a call does: it returns a value or raises an exception
Returned(v) == [exc |-> "none", val |-> v]
Raised(e) == [exc |-> e, val |-> None]

\* a list of floats given as thousandths
QSeq(series) == [k \in 1 .. Len(series) |-> Q(series[k])]

\* indicators.rsi with its argument check
rsi_checked(series, period) ==
    IF period <= 0 THEN Raised("ValueError") ELSE Returned(rsi(series, period))

\* k = 2.0 / (period + 1.0) and one smoothing step of ema
EmaK(period) == QNorm(2, period + 1)
EmaStep(prev, price, period) == QAdd(QMul(QSub(price, prev), EmaK(period)), prev)

\* out[i..n-1] of ema for i >= 1, prev being ema_val after index i - 1
RECURSIVE EmaFrom(_, _, _, _)
EmaFrom(series, period, i, prev) ==
    IF i >= Len(series) THEN <<>>
    ELSE Strict(LAMBDA e : <<IF i >= period - 1 THEN Some(e) ELSE None>> \o
                           EmaFrom(series, period, i + 1, e),
                EmaStep(prev, At(series, i), period))

\* indicators.ema over a list of rationals: out[0] is None whatever the
\* period, because the branch i == 0 assigns None
ema(series, period) ==
    IF period <= 0 THEN Raised("ValueError")
    ELSE IF Len(series) = 0 THEN Returned(<<>>)
    ELSE Returned(<<None>> \o EmaFrom(series, period, 1, At(series, 0)))

\* macd_line of macd_hist: the difference where both averages are defined
MacdLine(ema_fast, ema_slow) ==
    [k \in 1 .. Len(ema_fast) |->
        IF ema_fast[k] # None /\ ema_slow[k] # None
        THEN Some(QSub(Val(ema_fast[k]), Val(ema_slow[k])))
        ELSE None]

\* idx_map and macd_vals of macd_hist: the indices (from 0) and the values
\* of the defined elements of macd_line
RECURSIVE IdxMap(_, _)
IdxMap(macd_line, i) ==
    IF i >= Len(macd_line) THEN <<>>
    ELSE (IF At(macd_line, i) # None THEN <<i>> ELSE <<>>) \o IdxMap(macd_line, i + 1)
MacdVals(macd_line, idx_map) == [j \in 1 .. Len(idx_map) |-> Val(At(macd_line, idx_map[j]))]

\* hist of macd_hist: macd_vals[j] - signal_series[j] at index idx_map[j]
\* where the signal is defined, None elsewhere
MacdHistOf(n, idx_map, macd_vals, signal_series) ==
    [k \in 1 .. n |->
        IF \E j \in 1 .. Len(idx_map) : idx_map[j] = k - 1 /\ signal_series[j] # None
        THEN LET j == CHOOSE j \in 1 .. Len(idx_map) : idx_map[j] = k - 1
             IN  Some(QSub(macd_vals[j], Val(signal_series[j])))
        ELSE None]

\* indicators.macd_hist over a list of rationals
macd_hist(series, fast, slow, signal) ==
    IF ~(fast > 0 /\ slow > 0 /\ signal > 0) THEN Raised("ValueError")
    ELSE IF fast >= slow THEN Raised("ValueError")
    ELSE IF Len(series) = 0 THEN Returned(<<>>)
    ELSE LET macd_line == MacdLine(ema(series, fast).val, ema(series, slow).val)
             idx_map == IdxMap(macd_line, 0)
             macd_vals == MacdVals(macd_line, idx_map)
         IN  Returned(MacdHistOf(Len(series), idx_map, macd_vals, ema(macd_vals, signal).val))

\* seq[lo:hi] of the code for 0 <= lo: empty when lo >= hi
Slice(seq, lo, hi) == SubSeq(seq, lo + 1, Min2(hi, Len(seq)))

\* sum, min and max over a list of rationals (sum of no element is 0)
RECURSIVE QSum(_)
QSum(seq) == IF seq = <<>> THEN Q(0) ELSE QAdd(Head(seq), QSum(Tail(seq)))
RECURSIVE QMinOf(_)
QMinOf(seq) ==
    IF Len(seq) = 1 THEN Head(seq)
    ELSE Strict(LAMBDA m : IF QLt(Head(seq), m) THEN Head(seq) ELSE m, QMinOf(Tail(seq)))
RECURSIVE QMaxOf(_)
QMaxOf(seq) ==
    IF Len(seq) = 1 THEN Head(seq)
    ELSE Strict(LAMBDA m : IF QLt(m, Head(seq)) THEN Head(seq) ELSE m, QMaxOf(Tail(seq)))

\* the first exception a list of per-index results holds, "none" without one
RECURSIVE FirstExc(_)
FirstExc(rs) ==
    IF rs = <<>> THEN "none"
    ELSE IF Head(rs).exc # "none" THEN Head(rs).exc
    ELSE FirstExc(Tail(rs))
\* the loop over range(n) as a whole: the first exception leaves the
\* function, else the list of the values is built
Collect(rs) ==
    IF FirstExc(rs) # "none" THEN Raised(FirstExc(rs))
    ELSE Returned([k \in 1 .. Len(rs) |-> rs[k].val])

\* k_list[i] of stochastic_kd: min() and max() of an empty window raise
\* ValueError, which is what a k_period <= 0 produces at i = 0
StochK(high, low, close, k_period, i) ==
    IF i + 1 >= k_period
    THEN IF Slice(low, i - k_period + 1, i + 1) = <<>> THEN Raised("ValueError")
         ELSE LET window_low == QMinOf(Slice(low, i - k_period + 1, i + 1))
                  window_high == QMaxOf(Slice(high, i - k_period + 1, i + 1))
                  denom == QSub(window_high, window_low)
              IN  IF QIsZero(denom) THEN Returned(Some(Q(50)))
                  ELSE Returned(Some(QDiv(QMul(Q(100), QSub(At(close, i), window_low)), denom)))
    ELSE Returned(None)

\* d_list[i] of stochastic_kd: the mean of the last d_period values of K;
\* range(i - d_period + 1, i + 1) is empty for d_period <= 0, and then the
\* mean of no value is 0 / 0.0 (ZeroDivisionError) or 0 / d_period
StochD(k_list, d_period, i) ==
    IF At(k_list, i) = None THEN Returned(None)
    ELSE IF i + 1 >= d_period /\ \A j \in Max2(i - d_period + 1, 0) .. i : At(k_list, j) # None
    THEN IF d_period = 0 THEN Raised("ZeroDivisionError")
         ELSE IF d_period < 0 THEN Returned(Some(Q(0)))
         ELSE Returned(Some(QDiv(QSum([j \in 1 .. d_period |-> Val(At(k_list, i - d_period + j))]),
                                 Q(d_period))))
    ELSE Returned(None)

\* indicators.stochastic_kd over lists of rationals: the pair (k_list, d_list)
stochastic_kd(high, low, close, k_period, d_period) ==
    IF ~(Len(high) = Len(low) /\ Len(low) = Len(close)) THEN Raised("ValueError")
    ELSE IF Len(close) = 0 THEN Returned(<<<<>>, <<>>>>)
    ELSE LET ks == Collect([k \in 1 .. Len(close) |-> StochK(high, low, close, k_period, k - 1)])
         IN  IF ks.exc # "none" THEN ks
             ELSE LET ds == Collect([k \in 1 .. Len(close) |-> StochD(ks.val, d_period, k - 1)])
                  IN  IF ds.exc # "none" THEN ds ELSE Returned(<<ks.val, ds.val>>)

\* tp of cci: the typical price (high + low + close) / 3.0 at each index
TypicalPrice(high, low, close) ==
    [k \in 1 .. Len(close) |-> QDiv(QAdd(QAdd(high[k], low[k]), close[k]), Q(3))]

\* out[i] of cci: with period = 0 the window is empty and sum / 0.0 raises
\* ZeroDivisionError; with period < 0 it is empty too, sma and md are zero,
\* denom == 0.0 and the result is 0.0
CciAt(tp, period, i) ==
    IF i + 1 >= period
    THEN IF period = 0 THEN Raised("ZeroDivisionError")
         ELSE LET window == Slice(tp, i - period + 1, i + 1)
                  sma == QDiv(QSum(window), Q(period))
                  md == QDiv(QSum([k \in 1 .. Len(window) |-> QAbs(QSub(window[k], sma))]), Q(period))
                  denom == QMul(QNorm(15, 1000), md)
              IN  IF QIsZero(denom) THEN Returned(Some(Q(0)))
                  ELSE Returned(Some(QDiv(QSub(At(tp, i), sma), denom)))
    ELSE Returned(None)

\* indicators.cci over lists of rationals
cci(high, low, close, period) ==
    IF ~(Len(high) = Len(low) /\ Len(low) = Len(close)) THEN Raised("ValueError")
    ELSE IF Len(close) = 0 THEN Returned(<<>>)
    ELSE Collect([k \in 1 .. Len(close) |-> CciAt(TypicalPrice(high, low, close), period, k - 1)])

\* tr[i] of atr: the true range
TrueRange(high, low, close, i) ==
    IF i = 0 THEN QSub(At(high, 0), At(low, 0))
    ELSE QMaxOf(<<QSub(At(high, i), At(low, i)),
                  QAbs(QSub(At(high, i), At(close, i - 1))),
                  QAbs(QSub(At(low, i), At(close, i - 1)))>>)

\* out[i..n-1] of atr, avg_tr being the Optional the loop carries. At an
\* index i >= period with avg_tr still None the assert raises
\* AssertionError; run with -O the assert is compiled away and
\* None * (period - 1) raises TypeError
RECURSIVE AtrFrom(_, _, _, _, _)
AtrFrom(tr, period, i, avg_tr, optimized) ==
    IF i >= Len(tr) THEN <<>>
    ELSE IF i = period - 1
    THEN Strict(LAMBDA a : <<Returned(Some(a))>> \o AtrFrom(tr, period, i + 1, Some(a), optimized),
                QDiv(QSum(Slice(tr, 0, period)), Q(period)))
    ELSE IF i >= period
    THEN IF avg_tr = None
         THEN <<Raised(IF optimized THEN "TypeError" ELSE "AssertionError")>>
         ELSE Strict(LAMBDA a : <<Returned(Some(a))>> \o AtrFrom(tr, period, i + 1, Some(a), optimized),
                     QDiv(QAdd(QMul(Val(avg_tr), Q(period - 1)), At(tr, i)), Q(period)))
    ELSE <<Returned(None)>> \o AtrFrom(tr, period, i + 1, avg_tr, optimized)

\* indicators.atr over lists of rationals; optimized tells whether the
\* interpreter runs with -O
atr(high, low, close, period, optimized) ==
    IF ~(Len(high) = Len(low) /\ Len(low) = Len(close)) THEN Raised("ValueError")
    ELSE IF Len(close) = 0 THEN Returned(<<>>)
    ELSE Collect(AtrFrom([k \in 1 .. Len(close) |-> TrueRange(high, low, close, k - 1)],
                         period, 0, None, optimized))

\* ------------------------------------------------------ swing detection
\* swing.detect_swings for lookback >= 1: the swings <<index, value, type>>
\* in index order, over a sequence of rationals
\* (the first definition is the test for a high with >= in place of >)
IsSwingHigh_Ties(values, i, lookback) ==
    /\ \A j \in i - lookback .. i - 1 : QLe(At(values, j), At(values, i))
    /\ \A j \in i + 1 .. Min2(i + lookback, Len(values) - 1) : QLe(At(values, j), At(values, i))
IsSwingHigh(values, i, lookback) ==
    /\ \A j \in i - lookback .. i - 1 : QLt(At(values, j), At(values, i))
    /\ \A j \in i + 1 .. Min2(i + lookback, Len(values) - 1) : QLt(At(values, j), At(values, i))
IsSwingLow(values, i, lookback) ==
    /\ \A j \in i - lookback .. i - 1 : QLt(At(values, i), At(values, j))
    /\ \A j \in i + 1 .. Min2(i + lookback, Len(values) - 1) : QLt(At(values, i), At(values, j))

\* the swing detect_swings appends at index i, if any
SwingAt(values, lookback, i) ==
    IF IsSwingHigh(values, i, lookback) THEN <<<<i, At(values, i), "high">>>>
    ELSE IF IsSwingLow(values, i, lookback) THEN <<<<i, At(values, i), "low">>>>
    ELSE <<>>

RECURSIVE SwingsFrom(_, _, _)
SwingsFrom(values, lookback, i) ==
    IF i >= Len(values) - lookback THEN <<>>
    ELSE SwingAt(values, lookback, i) \o SwingsFrom(values, lookback, i + 1)

detect_swings(values, lookback) == Strict(LAMBDA v : SwingsFrom(v, lookback, lookback), values)

\* -------------------------------------------------- divergence detection
\* divergence._last_two_swings: None, or the last two swings of the type
last_two_swings(swings, swing_type) ==
    Strict(LAMBDA filt : IF Len(filt) < 2 THEN None
                         ELSE Some(<<filt[Len(filt) - 1], filt[Len(filt)]>>),
           SelectSeq(swings, LAMBDA sw : sw[3] = swing_type))

\* divergence._score
score_of(amplitude_ratio, separation) ==
    Strict(LAMBDA r :
               LET s1 == IF QLe(<<1, 100>>, r) THEN 2 ELSE 1
                   s2 == IF QLe(<<2, 100>>, r) THEN 3 ELSE s1
                   s3 == IF QLe(<<4, 100>>, r) THEN 4 ELSE s2
                   s4 == IF QLe(<<8, 100>>, r) THEN 5 ELSE s3
                   s5 == IF separation >= 10 /\ s4 < 5 THEN s4 + 1 ELSE s4
               IN  Min2(s5, 5),
           amplitude_ratio)

\* detect_divergence.amp_ratio
amp_ratio(a, b) ==
    LET denom == IF ~QIsZero(b) THEN QAbs(b) ELSE Q(1)
    IN  QAbs(QDiv(QSub(a, b), denom))

\* the forward fill of detect_divergence: None becomes the last value seen,
\* or 0.0 before any
RECURSIVE FillFrom(_, _, _)
FillFrom(indicator, k, last) ==
    IF k > Len(indicator) THEN <<>>
    ELSE IF indicator[k] # None
         THEN <<Val(indicator[k])>> \o FillFrom(indicator, k + 1, indicator[k])
         ELSE <<IF last # None THEN Val(last) ELSE Q(0)>> \o FillFrom(indicator, k + 1, last)
indicator_vals_of(indicator) == Strict(LAMBDA ind : FillFrom(ind, 1, None), indicator)

\* min() and max() of the slice values[j:k], j < k
RECURSIVE SliceMin(_, _, _)
SliceMin(values, j, k) ==
    IF j + 1 >= k THEN At(values, j)
    ELSE Strict(LAMBDA rest : IF QLt(rest, At(values, j)) THEN rest ELSE At(values, j),
                SliceMin(values, j + 1, k))
RECURSIVE SliceMax(_, _, _)
SliceMax(values, j, k) ==
    IF j + 1 >= k THEN At(values, j)
    ELSE Strict(LAMBDA rest : IF QLt(At(values, j), rest) THEN rest ELSE At(values, j),
                SliceMax(values, j + 1, k))

Cand(t, s) == [type |-> t, score |-> s]

\* the two candidates a pair comparison can append: `regular` when price and
\* indicator move as (up, down) for highs or (down, up) for lows
PairCands(pv1, pv2, iv1, iv2, sep, isHigh) ==
    LET s == score_of(QAdd(amp_ratio(pv2, pv1), amp_ratio(iv2, iv1)), sep)
        up == QLt(pv1, pv2) /\ QLt(iv2, iv1)
        down == QLt(pv2, pv1) /\ QLt(iv1, iv2)
    IN  IF isHigh
        THEN (IF up THEN <<Cand("BearishRegular", s)>> ELSE <<>>)
             \o (IF down THEN <<Cand("BearishHidden", s)>> ELSE <<>>)
        ELSE (IF down THEN <<Cand("BullishRegular", s)>> ELSE <<>>)
             \o (IF up THEN <<Cand("BullishHidden", s)>> ELSE <<>>)

\* lines 74-91: both series have a swing pair of the kind
PrimaryCands(pp, ip, isHigh) ==
    IF pp # None /\ ip # None
    THEN LET p == Val(pp)
             q == Val(ip)
         IN  PairCands(p[1][2], p[2][2], q[1][2], q[2][2],
                       Min2(p[2][1] - p[1][1], q[2][1] - q[1][1]), isHigh)
    ELSE <<>>

\* lines 94-124: the indicator extremum in the +/- lookback window around
\* each of the two price swings
WindowCands(pp, vals, w, isHigh) ==
    LET p == Val(pp)
        i1 == p[1][1]
        i2 == p[2][1]
        j1 == Max2(0, i1 - w)
        j2 == Max2(0, i2 - w)
        k1 == Min2(Len(vals), i1 + w + 1)
        k2 == Min2(Len(vals), i2 + w + 1)
        iv1 == IF j1 < k1 THEN (IF isHigh THEN SliceMax(vals, j1, k1) ELSE SliceMin(vals, j1, k1))
               ELSE At(vals, i1)
        iv2 == IF j2 < k2 THEN (IF isHigh THEN SliceMax(vals, j2, k2) ELSE SliceMin(vals, j2, k2))
               ELSE At(vals, i2)
    IN  Strict(LAMBDA iv : PairCands(p[1][2], p[2][2], iv[1], iv[2], Min2(i2 - i1, k2 - j2), isHigh),
               <<iv1, iv2>>)

\* lines 126-141: the indicator at the two price swings, non-strict
DirectCand(pp, vals, isHigh) ==
    LET p == Val(pp)
        i1 == p[1][1]
        i2 == p[2][1]
        pv1 == p[1][2]
        pv2 == p[2][2]
        iv1 == At(vals, i1)
        iv2 == At(vals, i2)
        s == score_of(QAdd(amp_ratio(pv2, pv1), amp_ratio(iv2, iv1)), Max2(1, i2 - i1))
    IN  IF isHigh
        THEN (IF QLe(pv1, pv2) /\ QLe(iv2, iv1) THEN <<Cand("BearishRegular", s)>> ELSE <<>>)
        ELSE (IF QLe(pv2, pv1) /\ QLe(iv1, iv2) THEN <<Cand("BullishRegular", s)>> ELSE <<>>)

\* the fallbacks of detect_divergence, each tried while the list is empty;
\* sw holds the price swing pairs <<highs, lows>>
Fallbacks(c1, sw, vals, lookback) ==
    Strict(LAMBDA c2 :
        Strict(LAMBDA c3 :
            Strict(LAMBDA c4 :
                IF c3 = <<>> /\ c4 = <<>> /\ sw[1] # None THEN DirectCand(sw[1], vals, TRUE) ELSE c4,
                IF c3 = <<>> /\ sw[2] # None THEN DirectCand(sw[2], vals, FALSE) ELSE c3),
            IF c2 = <<>> /\ sw[1] # None THEN WindowCands(sw[1], vals, lookback, TRUE) ELSE c2),
        IF c1 = <<>> /\ sw[2] # None THEN WindowCands(sw[2], vals, lookback, FALSE) ELSE c1)

\* the candidates list of detect_divergence when the sort is reached
candidates_of(prices, indicator, lookback) ==
    Strict(LAMBDA vals :
        Strict(LAMBDA sw :
            Strict(LAMBDA c1 : Fallbacks(c1, <<sw[1], sw[2]>>, vals, lookback),
                   PrimaryCands(sw[1], sw[3], TRUE) \o PrimaryCands(sw[2], sw[4], FALSE)),
            Strict(LAMBDA s : <<last_two_swings(s[1], "high"), last_two_swings(s[1], "low"),
                                last_two_swings(s[2], "high"), last_two_swings(s[2], "low")>>,
                   <<detect_swings([k \in 1 .. Len(prices) |-> Q(prices[k])], lookback),
                     detect_swings(vals, lookback)>>)),
        indicator_vals_of(indicator))

\* the sort key of line 144
IsRegular(t) == t \in {"BearishRegular", "BullishRegular"}
IsBullish_RegularOnly(t) == t = "BullishRegular"
IsBullish(t) == t \in {"BullishRegular", "BullishHidden"}
KeyLess(a, b) ==
    LET ra == IF IsRegular(a.type) THEN 0 ELSE 1
        rb == IF IsRegular(b.type) THEN 0 ELSE 1
    IN  ra < rb \/ (ra = rb /\ a.score > b.score)

\* candidates[0] after the stable list.sort
FirstSorted(cands) ==
    LET k == CHOOSE i \in 1 .. Len(cands) :
                 /\ \A j \in 1 .. Len(cands) : ~KeyLess(cands[j], cands[i])
                 /\ \A j \in 1 .. i - 1 : KeyLess(cands[i], cands[j])
    IN  cands[k]

\* lines 143-148 of detect_divergence: the triple the candidates list gives
outcome_of(candidates) ==
    Strict(LAMBDA cands :
               IF cands # <<>>
               THEN Strict(LAMBDA w : [type |-> w.type, score |-> w.score,
                                       sig_bit |-> IF IsBullish(w.type) THEN 1 ELSE 0],
                           FirstSorted(cands))
               ELSE [type |-> "NoDivergence", score |-> 0, sig_bit |-> 0],
           candidates)

\* divergence.detect_divergence
detect_divergence(prices, indicator, lookback) ==
    outcome_of(candidates_of(prices, indicator, lookback))

\* ------------------------------------------------------- DataConnector
Digits == <<"0", "1", "2", "3", "4", "5", "6", "7", "8", "9">>
IsDigit(c) == \E k \in 1 .. 10 : Digits[k] = c
DigitVal(c) == (CHOOSE k \in 1 .. 10 : Digits[k] = c) - 1

TfMin == <<"m", "i", "n">>
Tf1min == <<"1">> \o TfMin
Tf2min == <<"2">> \o TfMin

\* str.endswith("min")
EndsWithMin(s) == Len(s) >= 3 /\ SubSeq(s, Len(s) - 2, Len(s)) = TfMin

\* str.replace("min", ""): every non-overlapping occurrence, left to right
RECURSIVE ReplaceMin(_)
ReplaceMin(s) ==
    IF s = <<>> THEN <<>>
    ELSE IF Len(s) >= 3 /\ SubSeq(s, 1, 3) = TfMin THEN ReplaceMin(SubSeq(s, 4, Len(s)))
    ELSE <<Head(s)>> \o ReplaceMin(Tail(s))

\* int(str) on a string of letters and digits: None stands for ValueError
RECURSIVE DigitsValue(_)
DigitsValue(s) == IF s = <<>> THEN 0 ELSE 10 * DigitsValue(SubSeq(s, 1, Len(s) - 1)) + DigitVal(s[Len(s)])
ParseInt(s) ==
    IF s # <<>> /\ \A k \in 1 .. Len(s) : IsDigit(s[k]) THEN Some(DigitsValue(s)) ELSE None

\* DataConnector._bucket_ms: None stands for the ValueError int() raises
bucket_ms(tf) ==
    IF EndsWithMin(tf)
    THEN LET mins == ParseInt(ReplaceMin(tf))
         IN  IF mins = None THEN None ELSE Some(Val(mins) * 60 * 1000)
    ELSE Some(60 * 1000)

\* a Candle; kind is history only: which code path constructed it
Candle(ts, o, h, l, c, v, kind) ==
    [ts |-> ts, open |-> o, high |-> h, low |-> l, close |-> c, volume |-> v, kind |-> kind]

\* the bucket start _handle_tick works with after its first statement
TickBucketStart(d, ts, bucket) ==
    IF bucketStart[d] = None THEN (ts \div bucket) * bucket ELSE Val(bucketStart[d])

\* the close _handle_tick hands to _emit_agg at a rollover: the price of the
\* tick that triggered the rollover
RolloverClose(d, price) == price

\* the candle _emit_agg builds (first, the same candle timestamped at the
\* bucket's end instead of one millisecond before it)
emit_agg_candle_AtBucketEnd(d, ts_ms, close) ==
    Candle(ts_ms + 1, Val(aggOpen[d]),
           IF aggHigh[d] # None THEN Val(aggHigh[d]) ELSE Val(aggOpen[d]),
           IF aggLow[d] # None THEN Val(aggLow[d]) ELSE Val(aggOpen[d]),
           close, aggVolume[d], "final")
emit_agg_candle(d, ts_ms, close) ==
    Candle(ts_ms, Val(aggOpen[d]),
           IF aggHigh[d] # None THEN Val(aggHigh[d]) ELSE Val(aggOpen[d]),
           IF aggLow[d] # None THEN Val(aggLow[d]) ELSE Val(aggOpen[d]),
           close, aggVolume[d], "final")

\* DataConnector._handle_tick with a parseable timeframe, _emit_agg included
handle_tick(d, price, ts_ms, volume) ==
    LET bucket == Val(bucket_ms(timeframe[d]))
        bs == TickBucketStart(d, ts_ms, bucket)
    IN  /\ IF ts_ms >= bs + bucket
           THEN /\ queue' = [queue EXCEPT ![d] =
                        IF aggOpen[d] = None THEN @
                        ELSE Append(@, emit_agg_candle(d, bs + bucket - 1, RolloverClose(d, price)))]
                /\ bucketStart' = [bucketStart EXCEPT ![d] = Some((ts_ms \div bucket) * bucket)]
                /\ aggOpen' = [aggOpen EXCEPT ![d] = Some(price)]
                /\ aggHigh' = [aggHigh EXCEPT ![d] = Some(price)]
                /\ aggLow' = [aggLow EXCEPT ![d] = Some(price)]
                /\ aggVolume' = [aggVolume EXCEPT ![d] = volume]
           ELSE LET o == IF aggOpen[d] = None THEN price ELSE Val(aggOpen[d])
                    h == IF aggOpen[d] = None THEN price ELSE Max2(Val(aggHigh[d]), price)
                    l == IF aggOpen[d] = None THEN price ELSE Min2(Val(aggLow[d]), price)
                    v == aggVolume[d] + volume
                IN  /\ bucketStart' = [bucketStart EXCEPT ![d] = Some(bs)]
                    /\ aggOpen' = [aggOpen EXCEPT ![d] = Some(o)]
                    /\ aggHigh' = [aggHigh EXCEPT ![d] = Some(h)]
                    /\ aggLow' = [aggLow EXCEPT ![d] = Some(l)]
                    /\ aggVolume' = [aggVolume EXCEPT ![d] = v]
                    /\ queue' = [queue EXCEPT ![d] = Append(@, Candle(ts_ms, o, h, l, price, v, "interim"))]
        /\ UNCHANGED timeframe

\* ------------------------------------------- DataConnector: start, stop
\* what a step of one connector's task leaves alone
NotTask == UNCHANGED <<hubVars, bcVars, appVars, fnVars, lifeVars>>

\* DataConnector.start: a no-op while a task exists, else the stop flag is
\* cleared and the task is created (it first runs at a later step)
dc_start(d) ==
    /\ IF taskSet[d]
       THEN UNCHANGED <<stopEv, taskSet, tpc>>
       ELSE /\ stopEv' = [stopEv EXCEPT ![d] = FALSE]
            /\ taskSet' = [taskSet EXCEPT ![d] = TRUE]
            /\ tpc' = [tpc EXCEPT ![d] = IF simulate[d] THEN "sim_start" ELSE "ws_start"]
    /\ UNCHANGED <<simulate, backoff, simTs, simI, simLast>>

\* DataConnector.stop up to its await: the flag is set, and with a task the
\* caller waits for it
dc_stop_call(d) ==
    /\ ~stopWait[d]
    /\ stopEv' = [stopEv EXCEPT ![d] = TRUE]
    /\ stopWait' = [stopWait EXCEPT ![d] = taskSet[d]]

\* DataConnector.stop after asyncio.wait: the task has ended, _task = None
dc_stop_return(d) ==
    /\ stopWait[d]
    /\ tpc[d] = "done"
    /\ stopWait' = [stopWait EXCEPT ![d] = FALSE]
    /\ taskSet' = [taskSet EXCEPT ![d] = FALSE]

\* DataConnector.candles: queue.get() returned the oldest candle
candles_take(d) ==
    /\ queue[d] # <<>>
    /\ queue' = [queue EXCEPT ![d] = Tail(@)]
    /\ hist' = [hist EXCEPT ![d].lastTaken = Some(Head(queue[d]).ts)]

\* the locals base of _run_simulator and backoff of _run_ws, and the cap
SimBase == 100 * Scale
BackoffStart == 1
BackoffCap == 30

\* the task's coroutine returns: the task is done and its locals are gone
task_end(d) ==
    /\ tpc' = [tpc EXCEPT ![d] = "done"]
    /\ backoff' = [backoff EXCEPT ![d] = BackoffStart]
    /\ simTs' = [simTs EXCEPT ![d] = 0]
    /\ simI' = [simI EXCEPT ![d] = 0]
    /\ simLast' = [simLast EXCEPT ![d] = SimBase]
    /\ hist' = [hist EXCEPT ![d].fails = 0, ![d].delay = 0, ![d].errPending = FALSE]

\* ---------------------------------------------- DataConnector._run_simulator
\* 5.0 * sin(i degrees) and 100.0 * cos(i degrees) in thousandths, i = 0 .. 9
SinTable == <<0, 87, 174, 262, 349, 436, 523, 609, 696, 782>>
CosTable == <<100000, 99985, 99939, 99863, 99756, 99619, 99452, 99255, 99027, 98769>>
SimPad == Scale \div 5
SimStepMs == 1000
SimClose(i) == SimBase + SinTable[(i % 360) + 1]
SimVolume(i) == 1000 * Scale + CosTable[(i % 360) + 1]

\* the locals of _run_simulator before its loop: ts = int(time.time()) * 1000
sim_locals(d) ==
    /\ simTs' = [simTs EXCEPT ![d] = (now \div 1000) * 1000]
    /\ simI' = [simI EXCEPT ![d] = 0]
    /\ simLast' = [simLast EXCEPT ![d] = SimBase]

\* the task created for a simulating connector runs up to its loop
run_simulator_begin(d) ==
    /\ tpc[d] = "sim_start"
    /\ sim_locals(d)
    /\ tpc' = [tpc EXCEPT ![d] = "sim_loop"]
    /\ UNCHANGED <<now, aggVars, simulate, taskSet, stopEv, stopWait, backoff, hist, used>>
    /\ NotTask

\* the loop test of _run_simulator finds the stop flag set: the task ends
run_simulator_exit(d) ==
    /\ tpc[d] = "sim_loop"
    /\ stopEv[d]
    /\ task_end(d)
    /\ UNCHANGED <<now, aggVars, simulate, taskSet, stopEv, stopWait, used>>
    /\ NotTask

\* one iteration of the loop of _run_simulator, up to its sleep
run_simulator_step(d) ==
    /\ tpc[d] = "sim_loop"
    /\ ~stopEv[d]
    /\ used.sim < MaxSimSteps
    /\ Len(queue[d]) < MaxQueue
    /\ LET close == SimClose(simI[d])
       IN  /\ queue' = [queue EXCEPT ![d] =
                   Append(@, Candle(simTs[d], simLast[d], Max2(simLast[d], close) + SimPad,
                                    Min2(simLast[d], close) - SimPad, close, SimVolume(simI[d]), "sim"))]
           /\ simLast' = [simLast EXCEPT ![d] = close]
    /\ simTs' = [simTs EXCEPT ![d] = @ + SimStepMs]
    /\ simI' = [simI EXCEPT ![d] = @ + 1]
    /\ used' = [used EXCEPT !.sim = @ + 1]
    /\ UNCHANGED <<now, timeframe, aggOpen, aggHigh, aggLow, aggVolume, bucketStart, fed>>
    /\ UNCHANGED <<simulate, taskSet, stopEv, stopWait, tpc, backoff, hist>>
    /\ NotTask

\* ----------------------------------------------------- DataConnector._run_ws
\* what a step of _run_ws that touches no candle leaves alone
WsQuiet == UNCHANGED <<now, aggVars, simulate, taskSet, stopEv, stopWait, simTs, simI, simLast>>

\* the except clause of _run_ws is entered: asyncio.sleep(backoff) begins
ws_except(d) ==
    /\ tpc' = [tpc EXCEPT ![d] = "ws_sleep"]
    /\ hist' = [hist EXCEPT ![d].delay = backoff[d],
                            ![d].fails = Min2(@ + 1, MaxFails),
                            ![d].errPending = FALSE]

\* the task created for a live connector runs up to the loop of _run_ws;
\* without an API key it runs _run_simulator instead
run_ws_begin(d) ==
    /\ tpc[d] = "ws_start"
    /\ IF ~apiKey
       THEN /\ sim_locals(d)
            /\ tpc' = [tpc EXCEPT ![d] = "sim_loop"]
            /\ UNCHANGED backoff
       ELSE /\ backoff' = [backoff EXCEPT ![d] = BackoffStart]
            /\ tpc' = [tpc EXCEPT ![d] = "ws_loop"]
            /\ UNCHANGED <<simTs, simI, simLast>>
    /\ UNCHANGED <<now, aggVars, simulate, taskSet, stopEv, stopWait, hist, used>>
    /\ NotTask

\* the loop test of _run_ws finds the stop flag set: the task ends
run_ws_exit(d) ==
    /\ tpc[d] = "ws_loop"
    /\ stopEv[d]
    /\ task_end(d)
    /\ UNCHANGED <<now, aggVars, simulate, taskSet, stopEv, stopWait, used>>
    /\ NotTask

\* the loop test passes: session.ws_connect is awaited
run_ws_try(d) ==
    /\ tpc[d] = "ws_loop"
    /\ ~stopEv[d]
    /\ tpc' = [tpc EXCEPT ![d] = "ws_connect"]
    /\ UNCHANGED <<backoff, hist, used>>
    /\ WsQuiet /\ NotTask

\* session.ws_connect returned a connection
ws_connect_ok(d) ==
    /\ tpc[d] = "ws_connect"
    /\ used.conns < MaxConns
    /\ used' = [used EXCEPT !.conns = @ + 1]
    /\ tpc' = [tpc EXCEPT ![d] = "ws_handshake"]
    /\ hist' = [hist EXCEPT ![d].fails = 0, ![d].errPending = FALSE]
    /\ UNCHANGED backoff
    /\ WsQuiet /\ NotTask

\* session.ws_connect raised
ws_connect_fail(d) ==
    /\ tpc[d] = "ws_connect"
    /\ ws_except(d)
    /\ UNCHANGED <<backoff, used>>
    /\ WsQuiet /\ NotTask

\* both send_json calls (authenticate, subscribe) returned: backoff = 1.0
\* and the receive loop begins
ws_handshake_ok(d) ==
    /\ tpc[d] = "ws_handshake"
    /\ backoff' = [backoff EXCEPT ![d] = BackoffStart]
    /\ tpc' = [tpc EXCEPT ![d] = "ws_recv"]
    /\ UNCHANGED <<hist, used>>
    /\ WsQuiet /\ NotTask

\* one of the two send_json calls raised
ws_handshake_fail(d) ==
    /\ tpc[d] = "ws_handshake"
    /\ ws_except(d)
    /\ UNCHANGED <<backoff, used>>
    /\ WsQuiet /\ NotTask

\* the feed delivers one more message
ws_message(d) ==
    /\ tpc[d] = "ws_recv"
    /\ used.rx < MaxMsgs
    /\ used' = [used EXCEPT !.rx = @ + 1]

\* a TEXT message {"event": "price", "price": p} is received at time t
ws_recv_price(d, t, p) ==
    /\ ws_message(d)
    /\ Len(queue[d]) < MaxQueue
    /\ t >= now
    /\ now' = t
    /\ IF bucket_ms(timeframe[d]) = None
       THEN /\ ws_except(d)
            /\ UNCHANGED aggVars
       ELSE /\ handle_tick(d, p, t, 0)
            /\ UNCHANGED <<tpc, hist, fed>>
    /\ UNCHANGED <<simulate, taskSet, stopEv, stopWait, backoff, simTs, simI, simLast>>
    /\ NotTask

\* the candle _run_ws builds from a "bar" event received at time t: a field
\* the bar lacks takes its default, now_ms for the timestamp
bar_candle(bar, t) ==
    Candle(IF bar.timestamp = None THEN t ELSE Val(bar.timestamp),
           bar.open, bar.high, bar.low, bar.close, bar.volume, "bar")

\* a TEXT message {"event": "bar", "bar": bar} is received at time t
ws_recv_bar(d, t, bar) ==
    /\ ws_message(d)
    /\ Len(queue[d]) < MaxQueue
    /\ t >= now
    /\ now' = t
    /\ queue' = [queue EXCEPT ![d] = Append(@, bar_candle(bar, t))]
    /\ UNCHANGED <<timeframe, aggOpen, aggHigh, aggLow, aggVolume, bucketStart, fed>>
    /\ UNCHANGED <<simulate, taskSet, stopEv, stopWait, tpc, backoff, simTs, simI, simLast, hist>>
    /\ NotTask

\* a TEXT message with another event, or a message that is neither TEXT nor
\* ERROR, is received: nothing is done with it
ws_recv_other(d) ==
    /\ ws_message(d)
    /\ UNCHANGED <<tpc, backoff, hist>>
    /\ WsQuiet /\ NotTask

\* the except clause does not catch what the payload raised: the task ends
ws_recv_malformed_uncaught(d) ==
    /\ ws_message(d)
    /\ tpc' = [tpc EXCEPT ![d] = "done"]
    /\ hist' = [hist EXCEPT ![d].bad = @ + 1]
    /\ UNCHANGED backoff
    /\ WsQuiet /\ NotTask

\* a TEXT message is received whose payload json.loads, float() or int()
\* rejects: the exception leaves the receive loop and the connection, and
\* the except clause catches it
ws_recv_malformed(d) ==
    /\ ws_message(d)
    /\ tpc' = [tpc EXCEPT ![d] = "ws_sleep"]
    /\ hist' = [hist EXCEPT ![d].bad = @ + 1,
                            ![d].delay = backoff[d],
                            ![d].fails = Min2(@ + 1, MaxFails),
                            ![d].errPending = FALSE]
    /\ UNCHANGED backoff
    /\ WsQuiet /\ NotTask

\* a message of type ERROR is received: break leaves the receive loop and
\* the connection, and the outer loop goes round
ws_recv_error(d) ==
    /\ ws_message(d)
    /\ tpc' = [tpc EXCEPT ![d] = "ws_loop"]
    /\ hist' = [hist EXCEPT ![d].errPending = TRUE]
    /\ UNCHANGED backoff
    /\ WsQuiet /\ NotTask

\* the connection closes: the receive loop ends and the outer loop goes round
ws_closed(d) ==
    /\ tpc[d] = "ws_recv"
    /\ tpc' = [tpc EXCEPT ![d] = "ws_loop"]
    /\ UNCHANGED <<backoff, hist, used>>
    /\ WsQuiet /\ NotTask

\* asyncio.sleep(backoff) returned: backoff = min(backoff * 2.0, 30.0)
run_ws_backoff(d) ==
    /\ tpc[d] = "ws_sleep"
    /\ backoff' = [backoff EXCEPT ![d] = Min2(@ * 2, BackoffCap)]
    /\ tpc' = [tpc EXCEPT ![d] = "ws_loop"]
    /\ hist' = [hist EXCEPT ![d].delay = 0]
    /\ UNCHANGED used
    /\ WsQuiet /\ NotTask

\* -------------------------------------------------------- BroadcastHub
SubIds == 1 .. MaxSubs

\* the lock ignored: `async with self._lock` left out
HubLockFree_NoLock == TRUE

\* async with self._lock: the lock can be taken
HubLockFree == hubLock = "free"

\* the number of occurrences of m in seq
Count(m, seq) == Cardinality({k \in 1 .. Len(seq) : seq[k] = m})

\* list.remove(q) guarded by q in list
RemoveFirst(seq, q) ==
    IF \E k \in 1 .. Len(seq) : seq[k] = q
    THEN LET k == CHOOSE i \in 1 .. Len(seq) : seq[i] = q /\ \A j \in 1 .. i - 1 : seq[j] # q
         IN  SubSeq(seq, 1, k - 1) \o SubSeq(seq, k + 1, Len(seq))
    ELSE seq

\* ws_stream: accept the connection and call hub.subscribe
ws_stream_accept(h) ==
    /\ hs[h] = "new"
    /\ hs' = [hs EXCEPT ![h] = "subscribing"]
    /\ UNCHANGED <<subscribers, hubLock, subQ, got, bcVars>>

\* BroadcastHub.subscribe, once the lock is taken: a new queue is appended
hub_subscribe(h) ==
    /\ hs[h] = "subscribing"
    /\ HubLockFree
    /\ subscribers' = Append(subscribers, h)
    /\ hs' = [hs EXCEPT ![h] = "serving"]
    /\ UNCHANGED <<hubLock, subQ, got, bcVars>>

\* ws_stream: q.get() returned a message and ws.send_json sent it
ws_stream_deliver(h) ==
    /\ hs[h] = "serving"
    /\ subQ[h] # <<>>
    /\ subQ' = [subQ EXCEPT ![h] = Tail(@)]
    /\ UNCHANGED <<subscribers, hubLock, got, hs, bcVars>>

\* ws_stream: ws.send_json (of a message or of the keepalive) raised
\* WebSocketDisconnect; the except clause calls hub.unsubscribe
ws_stream_disconnect(h) ==
    /\ hs[h] = "serving"
    /\ subQ' = [subQ EXCEPT ![h] = IF @ = <<>> THEN @ ELSE Tail(@)]
    /\ hs' = [hs EXCEPT ![h] = "unsubscribing"]
    /\ UNCHANGED <<subscribers, hubLock, got, bcVars>>

\* ws_stream: ws.send_json raised another exception, which no except clause
\* of the handler names: the handler ends
ws_stream_send_error(h) ==
    /\ hs[h] = "serving"
    /\ subQ' = [subQ EXCEPT ![h] = IF @ = <<>> THEN @ ELSE Tail(@)]
    /\ hs' = [hs EXCEPT ![h] = "ended"]
    /\ UNCHANGED <<subscribers, hubLock, got, bcVars>>

\* BroadcastHub.unsubscribe, once the lock is taken
hub_unsubscribe(h) ==
    /\ hs[h] = "unsubscribing"
    /\ HubLockFree
    /\ subscribers' = RemoveFirst(subscribers, h)
    /\ hs' = [hs EXCEPT ![h] = "ended"]
    /\ UNCHANGED <<hubLock, subQ, got, bcVars>>

\* a call of BroadcastHub.broadcast(m) begins: it waits for the lock
broadcast_call(m) ==
    /\ bcPc = "idle"
    /\ bcPc' = "lock"
    /\ bcMsg' = m
    /\ bcSeq' = bcSeq + 1
    /\ UNCHANGED <<bcIdx, snap, bcDone, hubVars>>

\* BroadcastHub.broadcast takes the lock and creates the list iterator
broadcast_acquire ==
    /\ bcPc = "lock"
    /\ HubLockFree
    /\ hubLock' = "broadcast"
    /\ bcPc' = "iter"
    /\ bcIdx' = 0
    /\ snap' = [snap EXCEPT ![bcSeq] = {subscribers[k] : k \in 1 .. Len(subscribers)}]
    /\ UNCHANGED <<subscribers, subQ, got, hs, bcMsg, bcSeq, bcDone>>

\* one iteration of `for q in self._subscribers: await q.put(message)`
broadcast_put ==
    /\ bcPc = "iter"
    /\ bcIdx < Len(subscribers)
    /\ LET q == subscribers[bcIdx + 1]
       IN  /\ subQ' = [subQ EXCEPT ![q] = Append(@, bcMsg)]
           /\ got' = [got EXCEPT ![q] = Append(@, bcMsg)]
    /\ bcIdx' = bcIdx + 1
    /\ UNCHANGED <<subscribers, hubLock, hs, bcPc, bcMsg, bcSeq, snap, bcDone>>

\* the iterator is exhausted: the lock is released and broadcast returns
broadcast_return ==
    /\ bcPc = "iter"
    /\ bcIdx >= Len(subscribers)
    /\ hubLock' = "free"
    /\ bcPc' = "idle"
    /\ bcDone' = bcDone \cup {bcSeq}
    /\ UNCHANGED <<subscribers, subQ, got, hs, bcIdx, bcMsg, bcSeq, snap>>

\* ------------------------------------------------------------- main.py
\* what a step of the pipeline task or of a request handler leaves alone
\* when it touches no connector
NoConn == UNCHANGED <<now, aggVars, taskVars, hist, used, fnVars, lifeVars>>

\* POST /api/apikey: save_api_key stores the key
api_key_save ==
    /\ ~apiKey
    /\ apiKey' = TRUE
    /\ UNCHANGED <<dcN, dc, cfg, engineTf, dcLock, rpc, rcfg, ppc, pdc, mainPrices, priceKinds, pending, appHist>>
    /\ NoConn
    /\ UNCHANGED <<hubVars, bcVars, fnVars, lifeVars>>

\* the tail of _restart_connector: _stream_cfg and engine are replaced, a
\* DataConnector is constructed in the mode the key's presence selects, and
\* started; ts and ss are the task and stop fields as stop() left them
restart_create(tf, ts, ss) ==
    LET new == dcN + 1
    IN  /\ cfg' = tf
        /\ engineTf' = tf
        /\ dcN' = new
        /\ dc' = new
        /\ timeframe' = [timeframe EXCEPT ![new] = tf]
        /\ simulate' = [simulate EXCEPT ![new] = ~apiKey]
        /\ stopEv' = [ss EXCEPT ![new] = FALSE]
        /\ taskSet' = [ts EXCEPT ![new] = TRUE]
        /\ tpc' = [tpc EXCEPT ![new] = IF ~apiKey THEN "sim_start" ELSE "ws_start"]
        /\ UNCHANGED <<queue, aggOpen, aggHigh, aggLow, aggVolume, bucketStart, fed>>
        /\ UNCHANGED <<backoff, simTs, simI, simLast>>

\* background_pipeline up to its first wait: _restart_connector runs through
\* (_dc is None and the lock is free), and _dc.candles() binds the loop to
\* the queue of the connector just created
pipeline_start ==
    /\ ppc = "start"
    /\ dcLock = 0
    /\ dc = 0
    /\ dcN < MaxDc
    /\ restart_create(cfg, taskSet, stopEv)
    /\ pdc' = dcN + 1
    /\ ppc' = "waiting"
    /\ UNCHANGED <<now, stopWait, hist, used>>
    /\ UNCHANGED <<apiKey, dcLock, rpc, rcfg, mainPrices, priceKinds, pending, appHist>>
    /\ UNCHANGED <<hubVars, bcVars, fnVars, lifeVars>>

\* POST /api/stream/config with timeframe tf: set_stream_config calls
\* _restart_connector, which waits for _dc_lock
restart_call(r, tf) ==
    /\ ppc # "start"
    /\ rpc[r] = "idle"
    /\ rpc' = [rpc EXCEPT ![r] = "lock"]
    /\ rcfg' = [rcfg EXCEPT ![r] = tf]
    /\ UNCHANGED <<apiKey, dcN, dc, cfg, engineTf, dcLock, ppc, pdc, mainPrices, priceKinds, pending, appHist>>
    /\ NoConn
    /\ UNCHANGED <<hubVars, bcVars, fnVars, lifeVars>>

\* _restart_connector takes _dc_lock and calls _dc.stop(), which sets the
\* stop flag and waits for the task
restart_acquire(r) ==
    /\ rpc[r] = "lock"
    /\ dcLock = 0
    /\ dc # 0
    /\ taskSet[dc]
    /\ dcLock' = r
    /\ dc_stop_call(dc)
    /\ rpc' = [rpc EXCEPT ![r] = "stopping"]
    /\ UNCHANGED <<apiKey, dcN, dc, cfg, engineTf, rcfg, ppc, pdc, mainPrices, priceKinds, pending, appHist>>
    /\ UNCHANGED <<now, aggVars, simulate, taskSet, tpc, backoff, simTs, simI, simLast, hist, used>>
    /\ UNCHANGED <<hubVars, bcVars, fnVars, lifeVars>>

\* the old task has ended: stop() returns, the new connector is created and
\* started, and the lock is released (first, the same with a stop() that
\* returns without waiting for the task)
restart_finish_NoWait(r) ==
    /\ rpc[r] = "stopping"
    /\ dcN < MaxDc
    /\ stopWait' = [stopWait EXCEPT ![dc] = FALSE]
    /\ restart_create(rcfg[r], [taskSet EXCEPT ![dc] = FALSE], stopEv)
    /\ dcLock' = 0
    /\ rpc' = [rpc EXCEPT ![r] = "done"]
    /\ UNCHANGED <<now, hist, used>>
    /\ UNCHANGED <<apiKey, rcfg, ppc, pdc, mainPrices, priceKinds, pending, appHist>>
    /\ UNCHANGED <<hubVars, bcVars, fnVars, lifeVars>>
restart_finish(r) ==
    /\ rpc[r] = "stopping"
    /\ tpc[dc] = "done"
    /\ dcN < MaxDc
    /\ stopWait' = [stopWait EXCEPT ![dc] = FALSE]
    /\ restart_create(rcfg[r], [taskSet EXCEPT ![dc] = FALSE], stopEv)
    /\ dcLock' = 0
    /\ rpc' = [rpc EXCEPT ![r] = "done"]
    /\ UNCHANGED <<now, hist, used>>
    /\ UNCHANGED <<apiKey, rcfg, ppc, pdc, mainPrices, priceKinds, pending, appHist>>
    /\ UNCHANGED <<hubVars, bcVars, fnVars, lifeVars>>

\* rsi(_prices, 14) and detect_divergence(..., lookback=5)
RsiPeriod == 14
Lookback == 5

\* the "candle" message background_pipeline broadcasts
candle_message(c) == [event |-> "candle", tf |-> cfg, candle |-> c]

\* the packet SignalEngine.handle_divergence builds
signal_packet(found) ==
    [sig_bit |-> found.sig_bit, ts_unix_ms |-> now, tf |-> engineTf, dtype |-> found.type,
     score |-> found.score]

\* BroadcastHub.broadcast(m) called while no other coroutine holds the lock:
\* `async with self._lock` and the put on an unbounded queue return without
\* suspending, so the call runs through in the caller's step
hub_broadcast(m) ==
    /\ bcPc = "idle"
    /\ HubLockFree
    /\ subQ' = [q \in SubIds |->
                   subQ[q] \o [k \in 1 .. Count(q, subscribers) |-> m]]
    /\ got' = [q \in SubIds |->
                  got[q] \o [k \in 1 .. Count(q, subscribers) |-> m]]
    /\ bcSeq' = bcSeq + 1
    /\ snap' = [snap EXCEPT ![bcSeq + 1] = {subscribers[k] : k \in 1 .. Len(subscribers)}]
    /\ bcDone' = bcDone \cup {bcSeq + 1}
    /\ UNCHANGED <<subscribers, hubLock, hs, bcPc, bcIdx, bcMsg>>

\* one iteration of the loop of background_pipeline: `async for c in
\* _dc.candles()` yields the next candle of the queue the loop is bound to,
\* the candle is broadcast, its close is appended to _prices, rsi and
\* detect_divergence run over the whole series, and a divergence is handed
\* to engine.handle_divergence, which builds the packet
pipeline_candle ==
    /\ ppc = "waiting"
    /\ bcSeq < MaxBroadcasts
    /\ candles_take(pdc)
    /\ hub_broadcast(candle_message(Head(queue[pdc])))
    /\ mainPrices' = Append(mainPrices, Head(queue[pdc]).close)
    /\ priceKinds' = Append(priceKinds, Head(queue[pdc]).kind)
    /\ \E found \in {detect_divergence(mainPrices', rsi(mainPrices', RsiPeriod), Lookback)} :
           IF found.type # "NoDivergence"
           THEN /\ ppc' = "persist"
                /\ pending' = signal_packet(found)
                /\ appHist' = [appHist EXCEPT !.pktN = @ + 1]
           ELSE UNCHANGED <<ppc, pending, appHist>>
    /\ UNCHANGED <<now, timeframe, aggOpen, aggHigh, aggLow, aggVolume, bucketStart, fed, taskVars, used>>
    /\ UNCHANGED <<apiKey, dcN, dc, cfg, engineTf, dcLock, rpc, rcfg, pdc, fnVars, lifeVars>>

\* SignalEngine.handle_divergence: _persist committed the row, the packet is
\* broadcast, and the pipeline waits for the next candle
engine_persist_ok ==
    /\ ppc = "persist"
    /\ bcSeq < MaxBroadcasts
    /\ hub_broadcast(pending)
    /\ ppc' = "waiting"
    /\ appHist' = [appHist EXCEPT !.attempted = @ \cup {appHist.pktN}]
    /\ UNCHANGED <<apiKey, dcN, dc, cfg, engineTf, dcLock, rpc, rcfg, pdc, mainPrices, priceKinds, pending>>
    /\ NoConn

\* SignalEngine.handle_divergence: _persist raised (sqlite3 could not open,
\* insert or commit); nothing catches it in handle_divergence or in
\* background_pipeline, so the pipeline task ends
engine_persist_raise ==
    /\ ppc = "persist"
    /\ ppc' = "dead"
    /\ appHist' = [appHist EXCEPT !.failed = @ \cup {appHist.pktN}]
    /\ UNCHANGED <<apiKey, dcN, dc, cfg, engineTf, dcLock, rpc, rcfg, pdc, mainPrices, priceKinds, pending>>
    /\ NoConn
    /\ UNCHANGED <<hubVars, bcVars, fnVars, lifeVars>>

\* ---------------------------------------------------------- initial state
\* BroadcastHub() and no /ws/stream connection yet
InitHub ==
    /\ subscribers = <<>>
    /\ hubLock = "free"
    /\ subQ = [h \in SubIds |-> <<>>]
    /\ got = [h \in SubIds |-> <<>>]
    /\ hs = [h \in SubIds |-> "new"]
    /\ bcPc = "idle"
    /\ bcIdx = 0
    /\ bcMsg = 0
    /\ bcSeq = 0
    /\ snap = [m \in 1 .. MaxBroadcasts |-> {}]
    /\ bcDone = {}

\* the history of a connector nothing happened to
Hist0 ==
    [bad |-> 0, fails |-> 0, delay |-> 0, errPending |-> FALSE, lastTaken |-> None]

\* the callers of one DataConnector used on its own, and the tasks it may create
MaxCallers == 3
MaxTasks == 3
Callers == 1 .. MaxCallers

\* DataConnector.__init__ for that connector: no task, the flag clear; nobody
\* is inside stop()
InitLifeFields ==
    /\ tasks = <<>>
    /\ selfTask = None
    /\ selfStop = FALSE
    /\ awaiting = [c \in Callers |-> 0]

\* no library function is being called directly
InitFn == fnCall = None /\ fnRet = None /\ InitLifeFields

\* no connector has a task
InitTaskFields ==
    /\ taskSet = [d \in DcIds |-> FALSE]
    /\ stopEv = [d \in DcIds |-> FALSE]
    /\ stopWait = [d \in DcIds |-> FALSE]
    /\ tpc = [d \in DcIds |-> "none"]
    /\ backoff = [d \in DcIds |-> BackoffStart]
    /\ simTs = [d \in DcIds |-> 0]
    /\ simI = [d \in DcIds |-> 0]
    /\ simLast = [d \in DcIds |-> SimBase]
    /\ hist = [d \in DcIds |-> Hist0]
    /\ used = [conns |-> 0, rx |-> 0, sim |-> 0]
InitTasks == simulate = [d \in DcIds |-> FALSE] /\ InitTaskFields

\* the requests POST /api/stream/config that may arrive
Reconfs == 1 .. MaxDc - 1

\* main.py as imported: no connector, the pipeline not yet run
InitAppFields ==
    /\ dcN = 0
    /\ dc = 0
    /\ cfg = Tf1min
    /\ engineTf = Tf1min
    /\ dcLock = 0
    /\ rpc = [r \in Reconfs |-> "idle"]
    /\ rcfg = [r \in Reconfs |-> Tf1min]
    /\ ppc = "start"
    /\ pdc = 0
    /\ mainPrices = <<>>
    /\ priceKinds = <<>>
    /\ pending = None
    /\ appHist = [pktN |-> 0, failed |-> {}, attempted |-> {}]
\* ... and no key stored
InitApp == apiKey = FALSE /\ InitAppFields

\* ------------------------------------------- the aggregator on its own
\* a fresh DataConnector(symbol, "1min"), as __init__ leaves it
InitAgg ==
    /\ now = T0
    /\ InitHub
    /\ timeframe = [d \in DcIds |-> Tf1min]
    /\ queue = [d \in DcIds |-> <<>>]
    /\ aggOpen = [d \in DcIds |-> None]
    /\ aggHigh = [d \in DcIds |-> None]
    /\ aggLow = [d \in DcIds |-> None]
    /\ aggVolume = [d \in DcIds |-> 0]
    /\ bucketStart = [d \in DcIds |-> None]
    /\ fed = [d \in DcIds |-> <<>>]
    /\ InitTasks
    /\ InitApp
    /\ InitFn

\* one call of _handle_tick on connector 1 with a tick stamped by the clock
AggTick ==
    \E t \in Instants, p \in Prices, v \in Volumes :
        /\ t >= now
        /\ Len(queue[1]) < MaxQueue
        /\ now' = t
        /\ fed' = [fed EXCEPT ![1] = Append(@, <<t, p, v>>)]
        /\ handle_tick(1, p, t, v)
        /\ UNCHANGED <<taskVars, hist, used, hubVars, bcVars, appVars, fnVars, lifeVars>>

NextAgg == AggTick

AggSpec == InitAgg /\ [][NextAgg]_vars

\* ------------------------------------------------- the hub on its own
\* what the hub's actions leave alone
NotHub == UNCHANGED <<now, aggVars, taskVars, hist, used, appVars, fnVars, lifeVars>>

\* the pipeline task calls hub.broadcast with the next message
HubSend ==
    /\ bcSeq < MaxBroadcasts
    /\ broadcast_call(bcSeq + 1)
    /\ NotHub

NextHub ==
    \/ HubSend
    \/ broadcast_acquire /\ NotHub
    \/ broadcast_put /\ NotHub
    \/ broadcast_return /\ NotHub
    \/ \E h \in SubIds : ws_stream_accept(h) /\ NotHub
    \/ \E h \in SubIds : hub_subscribe(h) /\ NotHub
    \/ \E h \in SubIds : ws_stream_deliver(h) /\ NotHub
    \/ \E h \in SubIds : ws_stream_disconnect(h) /\ NotHub
    \/ \E h \in SubIds : ws_stream_send_error(h) /\ NotHub
    \/ \E h \in SubIds : hub_unsubscribe(h) /\ NotHub

HubSpec == InitAgg /\ [][NextHub]_vars

\* --------------------------------------------- one connector on its own
\* the instants, prices and bars the feed delivers
FeedInstants == {T0 + 500, T0 + 60000}
FeedPrices == {100 * Scale, 101 * Scale}
Bar(ts, o, h, l, c) == [timestamp |-> ts, open |-> o, high |-> h, low |-> l, close |-> c, volume |-> 0]
FeedBars ==
    {Bar(Some(T0), 100 * Scale, 101 * Scale, 100 * Scale, 101 * Scale),
     Bar(None, 101 * Scale, 101 * Scale, 100 * Scale, 100 * Scale)}

\* a DataConnector constructed directly, live or simulating, with or without
\* a stored key
InitConn ==
    /\ now = T0
    /\ InitHub
    /\ timeframe \in {[d \in DcIds |-> tf] : tf \in {Tf1min, Tf2min}}
    /\ queue = [d \in DcIds |-> <<>>]
    /\ aggOpen = [d \in DcIds |-> None]
    /\ aggHigh = [d \in DcIds |-> None]
    /\ aggLow = [d \in DcIds |-> None]
    /\ aggVolume = [d \in DcIds |-> 0]
    /\ bucketStart = [d \in DcIds |-> None]
    /\ fed = [d \in DcIds |-> <<>>]
    /\ InitTaskFields
    /\ simulate \in {[d \in DcIds |-> b] : b \in BOOLEAN}
    /\ InitAppFields
    /\ apiKey \in BOOLEAN
    /\ InitFn

\* what a call on the connector leaves alone
NotCaller == UNCHANGED <<now, aggVars, hist, used, hubVars, bcVars, appVars, fnVars, lifeVars>>

\* the owner of connector 1 calls start()
ConnStart ==
    /\ dc_start(1)
    /\ UNCHANGED stopWait
    /\ tpc' # tpc
    /\ NotCaller

\* the owner of connector 1 calls stop()
ConnStop ==
    /\ tpc[1] # "none"
    /\ dc_stop_call(1)
    /\ UNCHANGED <<simulate, taskSet, tpc, backoff, simTs, simI, simLast>>
    /\ NotCaller

\* the call of stop() returns
ConnStopReturn ==
    /\ dc_stop_return(1)
    /\ UNCHANGED <<simulate, stopEv, tpc, backoff, simTs, simI, simLast>>
    /\ NotCaller

\* the consumer of connector 1 takes a candle from candles()
ConnTake ==
    /\ candles_take(1)
    /\ UNCHANGED <<now, timeframe, aggOpen, aggHigh, aggLow, aggVolume, bucketStart, fed>>
    /\ UNCHANGED <<taskVars, used, hubVars, bcVars, appVars, fnVars, lifeVars>>

\* a step of the task of connector d, the feed delivering from the given
\* instants, prices and bars
TaskStep(d, instants, feedPrices, bars) ==
    \/ run_simulator_begin(d)
    \/ run_simulator_exit(d)
    \/ run_simulator_step(d)
    \/ run_ws_begin(d)
    \/ run_ws_exit(d)
    \/ run_ws_try(d)
    \/ ws_connect_ok(d)
    \/ ws_connect_fail(d)
    \/ ws_handshake_ok(d)
    \/ ws_handshake_fail(d)
    \/ \E t \in instants, p \in feedPrices : ws_recv_price(d, t, p)
    \/ \E t \in instants, b \in bars : ws_recv_bar(d, t, b)
    \/ ws_recv_other(d)
    \/ ws_recv_malformed(d)
    \/ ws_recv_error(d)
    \/ ws_closed(d)
    \/ run_ws_backoff(d)

NextConn ==
    \/ ConnStart
    \/ ConnStop
    \/ ConnStopReturn
    \/ ConnTake
    \/ TaskStep(1, FeedInstants, FeedPrices, FeedBars)

ConnSpec == InitConn /\ [][NextConn]_vars

\* ------------------------------------------------------ the application
\* main.py as imported, with a fresh hub
InitCold ==
    /\ now = T0
    /\ InitHub
    /\ timeframe = [d \in DcIds |-> Tf1min]
    /\ queue = [d \in DcIds |-> <<>>]
    /\ aggOpen = [d \in DcIds |-> None]
    /\ aggHigh = [d \in DcIds |-> None]
    /\ aggLow = [d \in DcIds |-> None]
    /\ aggVolume = [d \in DcIds |-> 0]
    /\ bucketStart = [d \in DcIds |-> None]
    /\ fed = [d \in DcIds |-> <<>>]
    /\ InitTasks
    /\ InitApp
    /\ InitFn

\* the closes of sixteen bars: a decline to 100.0, a recovery, a dip to 97.0
\* and a recovery
WarmCloses == <<105, 104, 103, 102, 101, 100, 101, 102, 103, 102, 101, 97, 100, 101, 102, 103>>

\* the application somewhat later: a key is stored, the first connector is
\* live with its connection open, one /ws/stream client is subscribed, and
\* the pipeline has consumed sixteen "bar" candles and waits for the next
InitWarm ==
    /\ now = T0
    /\ subscribers = <<1>>
    /\ hubLock = "free"
    /\ subQ = [h \in SubIds |-> <<>>]
    /\ got = [h \in SubIds |-> <<>>]
    /\ hs = [h \in SubIds |-> IF h = 1 THEN "serving" ELSE "new"]
    /\ bcPc = "idle"
    /\ bcIdx = 0
    /\ bcMsg = 0
    /\ bcSeq = 0
    /\ snap = [m \in 1 .. MaxBroadcasts |-> {}]
    /\ bcDone = {}
    /\ timeframe = [d \in DcIds |-> Tf1min]
    /\ queue = [d \in DcIds |-> <<>>]
    /\ aggOpen = [d \in DcIds |-> None]
    /\ aggHigh = [d \in DcIds |-> None]
    /\ aggLow = [d \in DcIds |-> None]
    /\ aggVolume = [d \in DcIds |-> 0]
    /\ bucketStart = [d \in DcIds |-> None]
    /\ fed = [d \in DcIds |-> <<>>]
    /\ simulate = [d \in DcIds |-> FALSE]
    /\ taskSet = [d \in DcIds |-> d = 1]
    /\ stopEv = [d \in DcIds |-> FALSE]
    /\ stopWait = [d \in DcIds |-> FALSE]
    /\ tpc = [d \in DcIds |-> IF d = 1 THEN "ws_recv" ELSE "none"]
    /\ backoff = [d \in DcIds |-> BackoffStart]
    /\ simTs = [d \in DcIds |-> 0]
    /\ simI = [d \in DcIds |-> 0]
    /\ simLast = [d \in DcIds |-> SimBase]
    /\ hist = [d \in DcIds |-> Hist0]
    /\ used = [conns |-> 0, rx |-> 0, sim |-> 0]
    /\ apiKey = TRUE
    /\ dcN = 1
    /\ dc = 1
    /\ cfg = Tf1min
    /\ engineTf = Tf1min
    /\ dcLock = 0
    /\ rpc = [r \in Reconfs |-> "idle"]
    /\ rcfg = [r \in Reconfs |-> Tf1min]
    /\ ppc = "waiting"
    /\ pdc = 1
    /\ mainPrices = [k \in 1 .. Len(WarmCloses) |-> WarmCloses[k] * Scale]
    /\ priceKinds = [k \in 1 .. Len(WarmCloses) |-> "bar"]
    /\ pending = None
    /\ appHist = [pktN |-> 0, failed |-> {}, attempted |-> {}]
    /\ InitFn

Init == InitCold \/ InitWarm

Next ==
    \/ api_key_save
    \/ pipeline_start
    \/ \E r \in Reconfs : restart_call(r, Tf2min)
    \/ \E r \in Reconfs : restart_acquire(r)
    \/ \E r \in Reconfs : restart_finish(r)
    \/ pipeline_candle
    \/ engine_persist_ok
    \/ engine_persist_raise
    \/ \E d \in DcIds : TaskStep(d, {T0 + 500}, {101 * Scale}, {Bar(Some(T0), 100 * Scale, 101 * Scale, 100 * Scale, 101 * Scale)})

Spec == Init /\ [][Next]_vars

\* ------------------------------------------ the library called directly
\* the lists and periods a caller passes: lists of up to MaxLen floats, and
\* periods from -1 to MaxPeriod
MaxLen == 3
MaxPeriod == 3
Periods == -1 .. MaxPeriod
LibPrices == {1 * Scale, 2 * Scale}
SeqsUpTo(S, n) == UNION {[1 .. k -> S] : k \in 0 .. n}
\* bars <<high, low, close>>, and the three lists of a list of bars; with
\* short, the list of lows has lost its last element
LibBars == {<<2 * Scale, 1 * Scale, 1 * Scale>>, <<3 * Scale, 1 * Scale, 2 * Scale>>}
Column(bars, c) == [k \in 1 .. Len(bars) |-> bars[k][c]]
Lows(bars, short) ==
    IF short /\ bars # <<>> THEN SubSeq(Column(bars, 2), 1, Len(bars) - 1) ELSE Column(bars, 2)

EmaCalls == {[fn |-> "ema", series |-> s, period |-> p] : s \in SeqsUpTo(LibPrices, MaxLen), p \in Periods}
RsiCalls == {[fn |-> "rsi", series |-> s, period |-> p] : s \in SeqsUpTo(LibPrices, MaxLen), p \in Periods}
MacdCalls ==
    {[fn |-> "macd_hist", series |-> s, fast |-> f, slow |-> w, signal |-> g] :
        s \in SeqsUpTo(LibPrices, MaxLen), f \in Periods, w \in Periods, g \in {0, 1}}
BarCalls(name) ==
    {[fn |-> name, high |-> Column(b, 1), low |-> Lows(b, short), close |-> Column(b, 3), period |-> p] :
        b \in SeqsUpTo(LibBars, MaxLen), short \in BOOLEAN, p \in Periods}
StochCalls ==
    {[fn |-> "stochastic_kd", high |-> c.high, low |-> c.low, close |-> c.close,
      period |-> c.period, d_period |-> d] : c \in BarCalls("stochastic_kd"), d \in Periods}

\* everything but the call is as in a fresh process
InitLibRest ==
    /\ now = T0
    /\ InitHub
    /\ timeframe = [d \in DcIds |-> Tf1min]
    /\ queue = [d \in DcIds |-> <<>>]
    /\ aggOpen = [d \in DcIds |-> None]
    /\ aggHigh = [d \in DcIds |-> None]
    /\ aggLow = [d \in DcIds |-> None]
    /\ aggVolume = [d \in DcIds |-> 0]
    /\ bucketStart = [d \in DcIds |-> None]
    /\ fed = [d \in DcIds |-> <<>>]
    /\ InitTasks
    /\ InitApp
    /\ fnRet = None
    /\ InitLifeFields

\* a caller is about to call one indicator function
InitInd ==
    /\ InitLibRest
    /\ \/ fnCall \in {Some(c) : c \in EmaCalls}
       \/ fnCall \in {Some(c) : c \in RsiCalls}
       \/ fnCall \in {Some(c) : c \in MacdCalls}
       \/ fnCall \in {Some(c) : c \in StochCalls}
       \/ fnCall \in {Some(c) : c \in BarCalls("cci")}
       \/ fnCall \in {Some(c) : c \in BarCalls("atr")}

NotLib == UNCHANGED <<now, aggVars, taskVars, hist, used, hubVars, bcVars, appVars, fnCall, lifeVars>>

\* the pending call of function name, if it has not run yet
Pending(name) == fnCall # None /\ fnRet = None /\ Val(fnCall).fn = name
Arg == Val(fnCall)

call_ema == Pending("ema") /\ fnRet' = Some(ema(QSeq(Arg.series), Arg.period)) /\ NotLib
call_rsi == Pending("rsi") /\ fnRet' = Some(rsi_checked(Arg.series, Arg.period)) /\ NotLib
call_macd_hist ==
    /\ Pending("macd_hist")
    /\ fnRet' = Some(macd_hist(QSeq(Arg.series), Arg.fast, Arg.slow, Arg.signal))
    /\ NotLib
call_stochastic_kd ==
    /\ Pending("stochastic_kd")
    /\ fnRet' = Some(stochastic_kd(QSeq(Arg.high), QSeq(Arg.low), QSeq(Arg.close), Arg.period, Arg.d_period))
    /\ NotLib
call_cci ==
    /\ Pending("cci")
    /\ fnRet' = Some(cci(QSeq(Arg.high), QSeq(Arg.low), QSeq(Arg.close), Arg.period))
    /\ NotLib
\* the interpreter runs with or without -O
call_atr ==
    /\ Pending("atr")
    /\ \E optimized \in BOOLEAN :
           fnRet' = Some(atr(QSeq(Arg.high), QSeq(Arg.low), QSeq(Arg.close), Arg.period, optimized))
    /\ NotLib

NextInd ==
    \/ call_ema
    \/ call_rsi
    \/ call_macd_hist
    \/ call_stochastic_kd
    \/ call_cci
    \/ call_atr

IndSpec == InitInd /\ [][NextInd]_vars

\* the swing detector called directly: lists of up to MaxSwingLen values
\* out of three, lookbacks from 0 to MaxLookback
MaxSwingLen == 5
MaxLookback == 2
SwingValues == {1 * Scale, 2 * Scale, 3 * Scale}
SwingCalls ==
    {[fn |-> "detect_swings", values |-> v, lookback |-> w] :
        v \in SeqsUpTo(SwingValues, MaxSwingLen), w \in 0 .. MaxLookback}

InitSwing == InitLibRest /\ fnCall \in {Some(c) : c \in SwingCalls}

\* swing.detect_swings with its argument check
call_detect_swings ==
    /\ Pending("detect_swings")
    /\ fnRet' = Some(IF Arg.lookback < 1 THEN Raised("ValueError")
                     ELSE Returned(detect_swings(QSeq(Arg.values), Arg.lookback)))
    /\ NotLib

NextSwing == call_detect_swings

SwingSpec == InitSwing /\ [][NextSwing]_vars

\* the divergence detector called directly: a price list out of five
\* shapes (widening swings, narrowing swings, a rise without swings, two
\* highs and one low, two lows and one high), every indicator list of the
\* same length over MaxLevel levels, its first elements None as an
\* indicator's are, and lookbacks from 1 to MaxLookback
MaxLevel == 4
MaxNones == 1
DivPriceLists ==
    {[k \in 1 .. 6 |-> p[k] * Scale] :
        p \in {<<3, 5, 2, 6, 1, 4>>, <<3, 6, 1, 5, 2, 4>>, <<1, 2, 3, 4, 5, 6>>,
               <<3, 5, 2, 6, 4, 4>>, <<3, 2, 5, 1, 4, 4>>}}
DivIndicators(n) ==
    {[k \in 1 .. n |-> IF k <= nones THEN None ELSE Some(Q(lv[k] * Scale))] :
        lv \in [1 .. n -> 1 .. MaxLevel], nones \in 0 .. MaxNones}
DivCalls ==
    {[fn |-> "detect_divergence", prices |-> p, indicator |-> ind, lookback |-> w] :
        p \in DivPriceLists, ind \in DivIndicators(6), w \in 1 .. MaxLookback}

\* _score called directly: amplitude ratios in hundredths around each
\* threshold, separations below and from 10
ScoreCalls ==
    {[fn |-> "_score", amplitude_ratio |-> QNorm(r, 100), separation |-> d] :
        r \in {0, 1, 2, 3, 4, 7, 8, 50}, d \in {1, 9, 10, 11}}

InitDiv ==
    /\ InitLibRest
    /\ \/ fnCall \in {Some(c) : c \in DivCalls}
       \/ fnCall \in {Some(c) : c \in ScoreCalls}

\* divergence._score
call_score ==
    /\ Pending("_score")
    /\ fnRet' = Some(Returned(score_of(Arg.amplitude_ratio, Arg.separation)))
    /\ NotLib

\* divergence.detect_divergence; the candidates list it built is kept with
\* the result
call_detect_divergence ==
    /\ Pending("detect_divergence")
    /\ \E cands \in {candidates_of(Arg.prices, Arg.indicator, Arg.lookback)} :
           fnRet' = Some([exc |-> "none", val |-> outcome_of(cands), candidates |-> cands])
    /\ NotLib

NextDiv ==
    \/ call_detect_divergence
    \/ call_score

DivSpec == InitDiv /\ [][NextDiv]_vars

\* _bucket_ms called on a connector constructed with any timeframe string
\* of up to MaxTfLen characters out of seven
MaxTfLen == 5
TfChars == {"1", "5", "m", "i", "n", "h", "x"}
BucketCalls == {[fn |-> "_bucket_ms", timeframe |-> tf] : tf \in SeqsUpTo(TfChars, MaxTfLen)}

InitBucket == InitLibRest /\ fnCall \in {Some(c) : c \in BucketCalls}

\* DataConnector._bucket_ms: it returns, or int() raises ValueError
call_bucket_ms ==
    /\ Pending("_bucket_ms")
    /\ \E r \in {bucket_ms(Arg.timeframe)} :
           fnRet' = Some(IF r = None THEN Raised("ValueError") ELSE Returned(Val(r)))
    /\ NotLib

NextBucket == call_bucket_ms

BucketSpec == InitBucket /\ [][NextBucket]_vars

\* ----------------------------- one DataConnector, its callers overlapping
\* start() and stop() are coroutines: a caller may call either while another
\* caller's stop() is suspended in asyncio.wait
InitLife == InitLibRest /\ fnCall = None

NotLife == UNCHANGED <<now, aggVars, taskVars, hist, used, hubVars, bcVars, appVars, fnVars>>

\* the tasks that have not returned
Live == {k \in DOMAIN tasks : tasks[k] = "running"}

\* DataConnector.start, called by c: a no-op while _task is set, else the
\* flag is cleared and a task is created
start_call(c) ==
    /\ awaiting[c] = 0
    /\ IF selfTask # None
       THEN UNCHANGED <<tasks, selfTask, selfStop>>
       ELSE /\ Len(tasks) < MaxTasks
            /\ selfStop' = FALSE
            /\ tasks' = Append(tasks, "running")
            /\ selfTask' = Some(Len(tasks) + 1)
    /\ UNCHANGED awaiting
    /\ NotLife

\* DataConnector.stop, called by c, up to its await: the flag is set, and
\* with _task set the caller waits for that task
stop_call(c) ==
    /\ awaiting[c] = 0
    /\ selfStop' = TRUE
    /\ awaiting' = [awaiting EXCEPT ![c] = IF selfTask # None THEN Val(selfTask) ELSE 0]
    /\ UNCHANGED <<tasks, selfTask>>
    /\ NotLife

\* DataConnector.stop resumes in c after asyncio.wait: the task it awaited
\* is done, and _task = None whatever _task holds by now
stop_resume(c) ==
    /\ awaiting[c] # 0
    /\ tasks[awaiting[c]] = "done"
    /\ selfTask' = None
    /\ awaiting' = [awaiting EXCEPT ![c] = 0]
    /\ UNCHANGED <<tasks, selfStop>>
    /\ NotLife

\* task k tests the flag at the head of its loop, finds it set and returns
task_return(k) ==
    /\ k \in Live
    /\ selfStop
    /\ tasks' = [tasks EXCEPT ![k] = "done"]
    /\ UNCHANGED <<selfTask, selfStop, awaiting>>
    /\ NotLife

NextLife ==
    \/ \E c \in Callers : start_call(c)
    \/ \E c \in Callers : stop_call(c)
    \/ \E c \in Callers : stop_resume(c)
    \/ \E k \in 1 .. MaxTasks : task_return(k)

LifeSpec == InitLife /\ [][NextLife]_vars

\* ----------------------------------------------------------------- claims
IsFinal(c) == c.kind = "final"
FinalCandles(d) == SelectSeq(queue[d], IsFinal)

\* the ticks (t0,100), (t0+500,101), (t0+60000,102) of the specification's example
C1_Ticks == <<<<T0, 100 * Scale>>, <<T0 + 500, 101 * Scale>>, <<T0 + 60000, 102 * Scale>>>>

\* the (ts, price) of the ticks fed to connector d
TickPairs(d) == [k \in 1 .. Len(fed[d]) |-> <<fed[d][k][1], fed[d][k][2]>>]

\* the ticks fed to connector d that fell inside the bucket candle c closes
TicksInBucketOf(d, c) ==
    SelectSeq(fed[d], LAMBDA t : (t[1] \div 60000) * 60000 = c.ts + 1 - 60000)

\* C1: after the ticks (t0,100), (t0+500,101), (t0+60000,102) with a 1-minute
\* bucket the queue holds exactly one finalized candle, with open 100, high 101,
\* low 100, close 101 and ts = bucket_end - 1; and in general the close of a
\* finalized candle is the price of the last tick inside its bucket.
C1_FinalizedCloseIsLastTickInBucket ==
    /\ TickPairs(1) = C1_Ticks =>
          /\ Len(FinalCandles(1)) = 1
          /\ LET c == FinalCandles(1)[1]
             IN  /\ c.ts = T0 + 60000 - 1
                 /\ c.open = 100 * Scale
                 /\ c.high = 101 * Scale
                 /\ c.low = 100 * Scale
                 /\ c.close = 101 * Scale
    /\ \A k \in 1 .. Len(FinalCandles(1)) :
          LET c == FinalCandles(1)[k]
              inb == TicksInBucketOf(1, c)
          IN  inb # <<>> /\ c.close = inb[Len(inb)][2]

\* the state C1 is about: the three ticks were fed and a candle was finalized
C1_Reached == TickPairs(1) = C1_Ticks /\ Len(FinalCandles(1)) = 1

\* C5: a message broadcast while N queues are subscribed is put on each of the
\* N queues exactly once, and a queue that was not subscribed when the
\* broadcast started (never subscribed, or unsubscribed before) receives
\* nothing from it, under any interleaving of subscribe, unsubscribe and
\* broadcast.
C5_BroadcastExactlyOnce ==
    \A m \in 1 .. MaxBroadcasts : \A q \in SubIds :
        /\ Count(m, got[q]) <= 1
        /\ q \notin snap[m] => Count(m, got[q]) = 0
        /\ (m \in bcDone /\ q \in snap[m]) => Count(m, got[q]) = 1

\* two queues received broadcast 1; queue 1 was then unsubscribed and
\* broadcast 2 reached queue 2 alone
C5_Reached ==
    /\ bcDone = {1, 2}
    /\ snap[1] = {1, 2}
    /\ snap[2] = {2}
    /\ hs[1] = "ended"
    /\ got[1] = <<1>>
    /\ got[2] = <<1, 2>>

\* C2: when _persist raises for a packet, hub.broadcast is still attempted
\* for that packet, and the pipeline keeps processing later candles (its
\* task has not ended).
C2_PersistFailureStillBroadcasts ==
    /\ appHist.failed \subseteq appHist.attempted
    /\ appHist.failed # {} => ppc # "dead"

\* C3: once a reconfiguration has completed, the candles the newly created
\* connector puts on its queue are consumed by background_pipeline: a candle
\* waiting there is on the queue the pipeline's loop reads.  (The loop is
\* bound to a queue once, in pipeline_start, so a candle on any other queue
\* is never consumed.)
C3_NewConnectorCandlesConsumed ==
    \A r \in Reconfs :
        (rpc[r] = "done" /\ dcLock = 0 /\ queue[dc] # <<>> /\ ppc = "waiting") => pdc = dc

\* C4: the running task observes the stop flag at each loop iteration, also
\* while the connection keeps delivering messages: once stop() has set the
\* flag, the task handles no further message and puts no further candle on
\* the queue, so that it exits and stop() returns.
C4_StopFlagObservedEachIteration ==
    [][\A d \in DcIds : (stopEv[d] /\ stopEv'[d]) => Len(queue'[d]) <= Len(queue[d])]_vars

\* C6: the candles taken from one connector's queue have non-decreasing
\* timestamps, whatever price ticks and bar events the task received.
C6_TakenTimestampsNonDecreasing ==
    [][\A d \in DcIds :
          (Len(queue'[d]) < Len(queue[d]) /\ hist[d].lastTaken # None)
              => Val(hist[d].lastTaken) <= Head(queue[d]).ts]_vars

\* the delay before the attempt that follows the k-th consecutive failure:
\* 1, 2, 4, 8, 16, 30, 30, ...
Delay(k) == Min2(2 ^ (k - 1), 30)

\* C7: the live transport waits 1, 2, 4, 8, 16, 30, 30, ... seconds on
\* repeated failures, counted from the last successful connection: the wait
\* after the k-th failure since then is min(2^(k-1), 30) seconds, so the
\* first failure after any successful connection waits 1 second.
C7_BackoffSequenceResetsOnConnection ==
    \A d \in DcIds : tpc[d] = "ws_sleep" => hist[d].delay = Delay(hist[d].fails)

\* C8: after an explicit error event on an open connection, the next
\* connection attempt is preceded by a backoff delay of at least 1.0 s: no
\* attempt is under way while the error event has not been followed by a
\* sleep.
C8_ErrorEventBacksOff ==
    \A d \in DcIds : tpc[d] = "ws_connect" => ~hist[d].errPending

\* C9, as claimed: a malformed message is dropped and the same connection
\* stays open, the task still receiving on it.
C9_MalformedKeepsConnection ==
    [][\A d \in DcIds : hist'[d].bad > hist[d].bad => tpc'[d] = "ws_recv"]_vars

\* C9, amended: a malformed message is dropped without ending the task: no
\* candle is queued for it and the aggregation state is unchanged, the
\* connection it arrived on is left, and the task sleeps the backoff delay
\* of 1 s before the outer loop goes round (to reconnect unless stop was
\* requested).
C9_MalformedDroppedThenReconnect ==
    [][\A d \in DcIds :
          hist'[d].bad > hist[d].bad =>
              /\ queue'[d] = queue[d]
              /\ aggOpen'[d] = aggOpen[d]
              /\ aggHigh'[d] = aggHigh[d]
              /\ aggLow'[d] = aggLow[d]
              /\ aggVolume'[d] = aggVolume[d]
              /\ bucketStart'[d] = bucketStart[d]
              /\ tpc'[d] = "ws_sleep"
              /\ hist'[d].delay = BackoffStart]_vars

\* a malformed message was dropped on the first connection, and a message
\* received on the second connection has put a candle on the queue
C9_Reached ==
    /\ hist[1].bad = 1
    /\ used.conns = 2
    /\ used.rx = 2
    /\ tpc[1] = "ws_recv"
    /\ queue[1] # <<>>

\* C10: _prices holds only closes of closed candles: no element of it came
\* from an interim intra-bucket snapshot.
C10_PriceSeriesOnlyClosedCandles ==
    \A k \in 1 .. Len(priceKinds) : priceKinds[k] # "interim"

\* the list a finished call returned, and the first index at which the
\* indicator the call names is to be defined
RetList == Val(fnRet).val
FirstDefined == IF Arg.fn = "rsi" THEN Arg.period ELSE Arg.period - 1
C11_Applies ==
    /\ fnCall # None
    /\ fnRet # None
    /\ Arg.fn \in {"ema", "rsi", "atr"}
    /\ Arg.period > 0
    /\ IF Arg.fn = "atr"
       THEN Len(Arg.close) > 0 /\ Len(Arg.high) = Len(Arg.close) /\ Len(Arg.low) = Len(Arg.close)
       ELSE Len(Arg.series) > 0

\* C11: for every period p > 0 and every non-empty series, ema and atr
\* return None at every index < p-1 and a number at every index >= p-1, and
\* rsi returns None at every index < p and a number at every index >= p.
C11_DefinedFromPeriod ==
    C11_Applies =>
        /\ Val(fnRet).exc = "none"
        /\ \A i \in 0 .. Len(RetList) - 1 : (At(RetList, i) = None) <=> (i < FirstDefined)

\* the arguments of the call are structurally invalid: a non-positive
\* period, lists of different lengths, or fast >= slow
InvalidArgs ==
    IF Arg.fn \in {"ema", "rsi"} THEN Arg.period <= 0
    ELSE IF Arg.fn = "macd_hist"
    THEN Arg.fast <= 0 \/ Arg.slow <= 0 \/ Arg.signal <= 0 \/ Arg.fast >= Arg.slow
    ELSE \/ Len(Arg.high) # Len(Arg.low)
         \/ Len(Arg.low) # Len(Arg.close)
         \/ Arg.period <= 0
         \/ Arg.fn = "stochastic_kd" /\ Arg.d_period <= 0

\* C12: every indicator function called with a non-positive period, with
\* lists of different lengths, or (macd_hist) with fast >= slow raises
\* ValueError: it raises no other exception and returns no value.
C12_InvalidArgumentsRaiseValueError ==
    (fnCall # None /\ fnRet # None /\ InvalidArgs) => Val(fnRet).exc = "ValueError"

\* index i of the list passed to detect_swings is a high (a low) by the
\* definition: inside w <= i < n-w and strictly above (below) each of its w
\* neighbours on either side; it is tied when a neighbour equals it
HighAt(i) ==
    /\ Arg.lookback <= i
    /\ i < Len(Arg.values) - Arg.lookback
    /\ \A j \in 1 .. Arg.lookback :
           At(Arg.values, i - j) < At(Arg.values, i) /\ At(Arg.values, i + j) < At(Arg.values, i)
LowAt(i) ==
    /\ Arg.lookback <= i
    /\ i < Len(Arg.values) - Arg.lookback
    /\ \A j \in 1 .. Arg.lookback :
           At(Arg.values, i - j) > At(Arg.values, i) /\ At(Arg.values, i + j) > At(Arg.values, i)
TiedAt(i) ==
    \E j \in 1 .. Arg.lookback :
        \/ i - j >= 0 /\ At(Arg.values, i - j) = At(Arg.values, i)
        \/ i + j < Len(Arg.values) /\ At(Arg.values, i + j) = At(Arg.values, i)
Reported(i) == \E k \in 1 .. Len(RetList) : RetList[k][1] = i

\* C13: for every list and lookback w >= 1, every swing detect_swings
\* reports is a high or a low by the definition, of the type reported and
\* with the value of the list, at an index with no tied neighbour; every
\* index that qualifies is reported; and the indices reported increase.
C13_SwingsExactlyTheStrictExtrema ==
    (fnCall # None /\ fnRet # None /\ Arg.lookback >= 1) =>
        /\ Val(fnRet).exc = "none"
        /\ \A k \in 1 .. Len(RetList) :
               /\ RetList[k][1] \in 0 .. Len(Arg.values) - 1
               /\ RetList[k][2] = Q(At(Arg.values, RetList[k][1]))
               /\ ~TiedAt(RetList[k][1])
               /\ \/ RetList[k][3] = "high" /\ HighAt(RetList[k][1])
                  \/ RetList[k][3] = "low" /\ LowAt(RetList[k][1])
        /\ \A i \in 0 .. Len(Arg.values) - 1 : (HighAt(i) \/ LowAt(i)) => Reported(i)
        /\ \A k \in 1 .. Len(RetList) - 1 : RetList[k][1] < RetList[k + 1][1]

\* detect_swings has returned a high and a low and has passed over an index
\* inside the range whose neighbour ties with it
C13_Reached ==
    /\ fnCall # None
    /\ fnRet # None
    /\ Arg.lookback >= 1
    /\ \E k1, k2 \in 1 .. Len(RetList) : RetList[k1][3] = "high" /\ RetList[k2][3] = "low"
    /\ \E i \in Arg.lookback .. Len(Arg.values) - Arg.lookback - 1 : TiedAt(i) /\ ~Reported(i)

\* a call of detect_divergence has returned; the candidates it sorted
DivReturned == fnCall # None /\ fnRet # None /\ Arg.fn = "detect_divergence"
DivCands == Val(fnRet).candidates
Reverse(seq) == [k \in 1 .. Len(seq) |-> seq[Len(seq) + 1 - k]]

\* C14: the ordering that picks the winner (Regular before Hidden, then the
\* higher score) is a strict total order over the candidates generated: of
\* two distinct candidates one is before the other, and the winner is the
\* same when the candidates are generated in the opposite order.
C14_CandidateOrderStrictTotal ==
    DivReturned =>
        /\ \A a, b \in 1 .. Len(DivCands) :
               DivCands[a] # DivCands[b] =>
                   KeyLess(DivCands[a], DivCands[b]) \/ KeyLess(DivCands[b], DivCands[a])
        /\ outcome_of(Reverse(DivCands)) = Val(fnRet).val

\* the forward-filled indicator of the call, and the last two swings of a
\* kind in the prices and in the indicator
DivVals == indicator_vals_of(Arg.indicator)
PricePair(kind) == last_two_swings(detect_swings(QSeq(Arg.prices), Arg.lookback), kind)
IndPair(kind) == last_two_swings(detect_swings(DivVals, Arg.lookback), kind)
InCands(c) == \E k \in 1 .. Len(DivCands) : DivCands[k] = c

\* C16: for each kind (high, low) of which the prices have two swings and
\* the indicator has not, the window fallback of that kind is evaluated:
\* what its comparison of the two price swings with the indicator's
\* extremum around each classifies is among the candidates, whether or not
\* the other kind produced a candidate.
C16_WindowFallbackPerKind ==
    DivReturned =>
        \A kind \in {"high", "low"} :
            (PricePair(kind) # None /\ IndPair(kind) = None) =>
                LET fb == WindowCands(PricePair(kind), DivVals, Arg.lookback, kind = "high")
                IN  \A k \in 1 .. Len(fb) : InCands(fb[k])

\* C17: the triple detect_divergence returns has score 0 and signal bit 0
\* when the type is NoDivergence; otherwise the type is one of the four
\* classes, the score is an integer from 1 to 5 and the signal bit is 1
\* exactly for BullishRegular and BullishHidden, else 0. Every score _score
\* returns is from 1 to 5.
C17_TripleWellFormed ==
    /\ DivReturned =>
           LET r == Val(fnRet).val
           IN  IF r.type = "NoDivergence" THEN r.score = 0 /\ r.sig_bit = 0
               ELSE /\ r.type \in {"BearishRegular", "BearishHidden", "BullishRegular", "BullishHidden"}
                    /\ r.score \in 1 .. 5
                    /\ r.sig_bit = (IF r.type \in {"BullishRegular", "BullishHidden"} THEN 1 ELSE 0)
    /\ (fnCall # None /\ fnRet # None /\ Arg.fn = "_score") => Val(fnRet).val \in 1 .. 5

\* detect_divergence has returned BullishHidden with signal bit 1
C17_Reached ==
    /\ DivReturned
    /\ Val(fnRet).val.type = "BullishHidden"
    /\ Val(fnRet).val.sig_bit = 1
    /\ Val(fnRet).val.score \in 1 .. 5

\* the tick a step hands to _handle_tick of connector d, the bucket length,
\* and the end of the bucket open before the step
TickStep(d) == Len(fed'[d]) = Len(fed[d]) + 1
TickOf(d) == fed'[d][Len(fed'[d])]
BucketLen(d) == Val(bucket_ms(timeframe[d]))
BucketEnd(d) == Val(bucketStart[d]) + BucketLen(d)
Added(d) == SubSeq(queue'[d], Len(queue[d]) + 1, Len(queue'[d]))

\* C15: a tick at or beyond the end of the open bucket enqueues exactly one
\* candle, the finalized one with ts = bucket_end - 1 (no interim snapshot),
\* and opens the bucket at floor(ts/bucket)*bucket with this tick's price as
\* open, high and low and this tick's volume; a tick inside the open bucket
\* enqueues exactly one interim candle and leaves the bucket start unchanged.
C15_RolloverAndInterim ==
    [][\A d \in DcIds :
          (TickStep(d) /\ bucketStart[d] # None) =>
              IF TickOf(d)[1] >= BucketEnd(d)
              THEN /\ Len(Added(d)) = 1
                   /\ Added(d)[1].kind = "final"
                   /\ Added(d)[1].ts = BucketEnd(d) - 1
                   /\ bucketStart'[d] = Some((TickOf(d)[1] \div BucketLen(d)) * BucketLen(d))
                   /\ aggOpen'[d] = Some(TickOf(d)[2])
                   /\ aggHigh'[d] = Some(TickOf(d)[2])
                   /\ aggLow'[d] = Some(TickOf(d)[2])
                   /\ aggVolume'[d] = TickOf(d)[3]
              ELSE /\ Len(Added(d)) = 1
                   /\ Added(d)[1].kind = "interim"
                   /\ Added(d)[1].ts = TickOf(d)[1]
                   /\ Added(d)[1].close = TickOf(d)[2]
                   /\ bucketStart'[d] = bucketStart[d]]_vars

\* a tick rolled the bucket over (a finalized candle is queued) and a later
\* tick fell inside the new bucket (an interim candle follows it)
C15_Reached ==
    \E k \in 1 .. Len(queue[1]) - 1 :
        /\ queue[1][k].kind = "final"
        /\ queue[1][k + 1].kind = "interim"
        /\ bucketStart[1] # None
        /\ queue[1][k].ts < Val(bucketStart[1])

\* the timeframe of the call has the form "<N>min", N a decimal numeral,
\* and the number N it names
NumeralOf(tf) == SubSeq(tf, 1, Len(tf) - 3)
IsNMin(tf) ==
    /\ Len(tf) >= 4
    /\ SubSeq(tf, Len(tf) - 2, Len(tf)) = <<"m", "i", "n">>
    /\ \A k \in 1 .. Len(tf) - 3 : tf[k] \in {"0", "1", "2", "3", "4", "5", "6", "7", "8", "9"}
RECURSIVE Decimal(_, _)
Decimal(digits, acc) ==
    IF digits = <<>> THEN acc
    ELSE Decimal(Tail(digits),
                 10 * acc + (CHOOSE v \in 0 .. 9 :
                                 <<"0", "1", "2", "3", "4", "5", "6", "7", "8", "9">>[v + 1] = Head(digits)))

\* C18: _bucket_ms returns N*60000 for a timeframe "<N>min", and returns
\* 60000, without raising, for every other timeframe string.
C18_BucketLengthOrDefault ==
    (fnCall # None /\ fnRet # None) =>
        Val(fnRet) = Returned(IF IsNMin(Arg.timeframe)
                              THEN Decimal(NumeralOf(Arg.timeframe), 0) * 60000
                              ELSE 60000)

\* C19: over any start and stop calls on one DataConnector, a start never
\* creates a task while an earlier task of the instance is still running, a
\* start that creates a task leaves the stop flag cleared and _task naming
\* that task, and at no time does the instance have two running tasks
C19_AtMostOneTask ==
    /\ [](Cardinality(Live) <= 1)
    /\ [][Len(tasks') > Len(tasks) =>
            /\ Live = {}
            /\ ~selfStop'
            /\ selfTask' = Some(Len(tasks'))]_vars

\* C20: a /ws/stream handler that has ended, whichever exception of
\* ws.send_json ended it, has had its queue removed from the hub's subscriber
\* list (an ended handler takes no further step, so a queue still listed then
\* is never removed and every later broadcast puts a message on it)
Listed(h) == \E k \in 1 .. Len(subscribers) : subscribers[k] = h
C20_EndedHandlerUnsubscribed == \A h \in SubIds : hs[h] = "ended" => ~Listed(h)

\* C21: every candle _handle_tick has put on the queue, interim or finalized,
\* is a consistent bar: low <= open <= high and low <= close <= high
ConsistentBar(c) ==
    /\ c.low <= c.open /\ c.open <= c.high
    /\ c.low <= c.close /\ c.close <= c.high
C21_QueuedCandlesConsistent ==
    \A k \in 1 .. Len(queue[1]) : ConsistentBar(queue[1][k])

\* C22: under any interleaving of reconfiguration requests and the startup
\* restart at most one connector's task exists unfinished at any time, it is
\* the task of the current connector, and a connector is created only when
\* every earlier task has exited, by the holder of _dc_lock (or by the
\* startup restart, which finds the lock free)
RunningTasks == {d \in DcIds : tpc[d] \notin {"none", "done"}}
C22_OneConnectorTask ==
    /\ [](Cardinality(RunningTasks) <= 1 /\ RunningTasks \subseteq {dc})
    /\ [][dcN' # dcN =>
            /\ RunningTasks = {}
            /\ \/ dcLock \in Reconfs /\ rpc[dcLock] = "stopping"
               \/ dcLock = 0 /\ ppc = "start"]_vars

\* a second request stops the connector a first request created: the first
\* connector's task has exited, the second's still runs, its stop flag set
C22_Reached ==
    \E r \in Reconfs, s \in Reconfs :
        /\ r # s
        /\ rpc[r] = "done"
        /\ rpc[s] = "stopping"
        /\ dc = 2
        /\ tpc[1] = "done"
        /\ stopEv[2]
        /\ RunningTasks = {2}

====
